---- MODULE Spec2Model ----
(***************************************************************************)
(* Copy-trading pipeline of windbreaker: the Wallet Poller                 *)
(* (wallet_monitor.py), the Copy-Trade Decision Engine (copy_trader.py)    *)
(* and the Position Ledger (position_manager.py).                          *)
(*                                                                         *)
(* Ten specifications share the module:                                    *)
(*   Spec         the decision engine handling parsed swaps, its timers    *)
(*                and the simulated-position health sweep;                 *)
(*   SpecPoller   the poll loop of WalletMonitor;                          *)
(*   SpecLedger   the PositionManager class driven through its interface;  *)
(*   SpecDetector TransactionParser.parse_transaction on raw transactions; *)
(*   SpecMock     the simulated account: buys, sells, state file, restart; *)
(*   SpecSizing   the trade size computed for a buy signal;                *)
(*   SpecShutdown start, stop signal and cleanup of the bot;                *)
(*   SpecRecent   the recent-copy cooldown for the signals of one token;    *)
(*   SpecWallets  the poll loop with wallets added and removed;             *)
(*   SpecLookup   the token-health look-up and its cache.                   *)
(*                                                                         *)
(* SOL amounts are integers in units of 0.0001 SOL (the precision trade    *)
(* sizes are rounded to, copy_trader.py:840).  Token ages are in seconds,  *)
(* wall-clock time `now` is in seconds.                                    *)
(***************************************************************************)
EXTENDS Integers, Sequences, FiniteSets, TLC

VARIABLES
    \* ---- CopyTrader (copy_trader.py) ----
    cfg,                        \* the Config values that vary between runs
    phase,                      \* "created" | "running" | "crashed" | "stopped"
    position_manager,           \* "None" or "PositionManager"
    now,                        \* time.time()
    mock_balance,
    mock_token_positions,       \* mint -> token amount
    mock_position_entry_time,   \* mint -> entry timestamp
    mock_position_entry_sol,    \* mint -> SOL spent
    trader_sold_cooldown,       \* mint -> timestamp of the not-held sell
    recent_copies,              \* set of recently copied mints
    clear_tasks,                \* pending _clear_recent_copy tasks: mint -> due time
    trader_balances,            \* wallet -> cached balance
    token_info_cache,           \* key -> [info, time]
    holder_info_cache,          \* mint -> [info, time]
    stats,                      \* TradeStats counters
    mock_trades_history,
    mock_state_file,            \* content of the persisted state, or NoFile
    sweep,                      \* _cleanup_stale_mock_positions: its position
    last,                       \* outcome of the last handled transaction
    \* ---- WalletMonitor (wallet_monitor.py) ----
    chain,                      \* wallet -> signatures on the ledger, newest first
    seen_signatures,            \* wallet -> set of seen signatures
    target_wallets,             \* sequence of tracked wallets
    poll,                       \* position of the poll loop
    fetched,                    \* signature -> number of body fetches
    delivered,                  \* signature -> number of handler invocations
    \* ---- PositionManager (position_manager.py) ----
    positions,                  \* token_mint -> Position
    pm_stats,                   \* total_sells, total_abandoned, profit, loss
    pm_settings,                \* the thresholds the manager was built with
    monitor,                    \* _check_all_positions: its position
    exit_log,                   \* last result of _should_exit / _sell_position
    \* ---- TransactionParser (tx_parser.py) ----
    raw,                        \* the raw transaction of one signature
    handed,                     \* how the transaction reached the parser
    parsed                      \* what parse_transaction returned

traderVars == <<cfg, phase, position_manager, now, mock_balance, mock_token_positions,
                mock_position_entry_time, mock_position_entry_sol, trader_sold_cooldown,
                recent_copies, clear_tasks, trader_balances, token_info_cache,
                holder_info_cache, stats, mock_trades_history, mock_state_file,
                sweep, last>>
pollerVars == <<chain, seen_signatures, target_wallets, poll, fetched, delivered>>
ledgerVars == <<positions, pm_stats, pm_settings, monitor, exit_log>>
detectorVars == <<raw, handed, parsed>>
vars == <<traderVars, pollerVars, ledgerVars, detectorVars>>

(***************************************************************************)
(* Bounds of the model                                                     *)
(***************************************************************************)
MaxEvents == 3          \* transactions handled by _on_transaction in a run
MaxTime == 60           \* the clock stops advancing here
TickSec == 30           \* granularity of the clock

Mints == {"X", "Y", "Z"}
Trader == "W1"

(***************************************************************************)
(* Configuration (Config attributes read in CopyTrader.__init__)           *)
(***************************************************************************)
\* defaults of Config.from_env
fee_reserve == 500              \* 0.05 SOL
exit_fee_reserve == 10          \* 0.001 SOL
max_sol_per_trade == 5000       \* 0.5 SOL
min_sol_per_trade == 500        \* 0.05 SOL
copy_balance_pct == 50

\* values of a run: two slots, 1 SOL of simulated funds, and token-health
\* thresholds that are all enabled
max_positions == 2
mock_balance_sol == 10000
min_token_age_minutes == 5
min_market_cap_usd == 20000
min_liquidity_usd == 10000
min_volume_24h_usd == 30000
max_price_change_1h_pct == 200
min_txns_1h == 50
max_top10_holders_pct == 50
max_dev_holdings_pct == 20
min_holders_count == 100

\* constants of copy_trader.py
sell_cooldown_seconds == 60
RecentCopyDelay == 30
TokenInfoTtl == 60
PumpInfoTtl == 30
HolderInfoTtl == 300
MIN_LIQUIDITY_USD == 1000
MIN_MARKET_CAP_USD == 5000
DefaultTraderBalance == 100000  \* 10.0 SOL

(***************************************************************************)
(* Dictionaries: Python dicts are functions on the set of their keys       *)
(***************************************************************************)
EmptyDict == <<>>
Get(d, k, default) == IF k \in DOMAIN d THEN d[k] ELSE default
Put(d, k, v) == [x \in (DOMAIN d) \cup {k} |-> IF x = k THEN v ELSE d[x]]
Pop(d, k) == [x \in (DOMAIN d) \ {k} |-> d[x]]

Min2(a, b) == IF a <= b THEN a ELSE b
Max2(a, b) == IF a >= b THEN a ELSE b


(***************************************************************************)
(* Inputs: parsed swaps and the answers of the external services           *)
(***************************************************************************)
NoSwap == [swap_type |-> "none"]
NoData == [nodata |-> TRUE]
NoFile == [nofile |-> TRUE]

\* Each token trades on one venue, and the market and holder data of a token
\* do not change during a run; a service may fail to answer at any request.
DexOf(mint) == IF mint = "Z" THEN "pump.fun" ELSE "raydium"
SignalSol == 2000               \* 0.2 SOL; the parser emits sol_value >= min_sol_value
BuySwaps == {[swap_type |-> "buy", token_mint |-> m, sol_amount |-> SignalSol,
              token_amount |-> 10000, dex |-> DexOf(m), wallet |-> Trader] : m \in Mints}
SellSwaps == {[swap_type |-> "sell", token_mint |-> m, sol_amount |-> SignalSol,
               token_amount |-> t, dex |-> DexOf(m), wallet |-> Trader] :
              m \in Mints, t \in {10000, 5000}}
Swaps == BuySwaps \cup SellSwaps

is_buy(swap) == swap.swap_type = "buy"
is_sell(swap) == swap.swap_type = "sell"

\* (market_cap, age, liquidity, volume_24h, price_change_1h, txns_1h)
Info(mc, age, liq, vol, chg, txns) ==
    [market_cap |-> mc, age |-> age, liquidity |-> liq, volume_24h |-> vol,
     price_change_1h |-> chg, txns_1h |-> txns]
ZeroInfo == Info(0, 0, 0, 0, 0, 0)
HealthyInfo == Info(100000, 3600, 20000, 50000, 10, 200)
RuggedInfo == Info(100000, 3600, 500, 50000, 10, 200)
Holders(top10, dev, count) == [top10_pct |-> top10, dev_pct |-> dev, holders_count |-> count]

\* What each service answers for a mint when it answers
DexScreener(mint) == IF mint = "Y" THEN RuggedInfo ELSE HealthyInfo
PumpFun(mint) == [market_cap |-> 50000, age |-> 600]
RugCheck(mint) == IF mint = "Y" THEN Holders(80, 5, 500) ELSE Holders(20, 5, 500)
TraderBalance == [balance |-> 4000]     \* 0.4 SOL

PumpKey(mint) == "pumpfun_" \o mint

\* The answers to the requests one handler makes: NoData is a failed request
ExtAnswers(mint) == [dex : {DexScreener(mint), NoData}, pump : {PumpFun(mint), NoData},
                     holder : {RugCheck(mint), NoData}, trader : {TraderBalance, NoData}]

(***************************************************************************)
(* Token health lookups with their TTL caches                              *)
(***************************************************************************)
get_token_info_stale(cache, mint, answer) ==
    IF mint \in DOMAIN cache /\ (now - cache[mint].time < TokenInfoTtl \/ answer = NoData)
    THEN [info |-> [cache[mint].info EXCEPT !.age = @ + (now - cache[mint].time)],
          cache |-> cache, asked |-> FALSE]
    ELSE IF answer = NoData
         THEN [info |-> ZeroInfo, cache |-> cache, asked |-> TRUE]
         ELSE [info |-> answer, cache |-> Put(cache, mint, [info |-> answer, time |-> now]),
               asked |-> TRUE]

\* _get_token_info: the tuple returned and the cache afterwards; `answer` is
\* what DexScreener returns if it is asked (NoData: error, non-200, no pairs).
get_token_info(cache, mint, answer) ==
    IF mint \in DOMAIN cache /\ now - cache[mint].time < TokenInfoTtl
    THEN [info |-> [cache[mint].info EXCEPT !.age = @ + (now - cache[mint].time)],
          cache |-> cache, asked |-> FALSE]
    ELSE IF answer = NoData
         THEN [info |-> ZeroInfo, cache |-> cache, asked |-> TRUE]
         ELSE [info |-> answer, cache |-> Put(cache, mint, [info |-> answer, time |-> now]),
               asked |-> TRUE]

\* _get_pumpfun_token_info: (market_cap, age) and the cache afterwards.
get_pumpfun_token_info(cache, mint, answer) ==
    LET key == PumpKey(mint) IN
    IF key \in DOMAIN cache /\ now - cache[key].time < PumpInfoTtl
    THEN [info |-> cache[key].info, cache |-> cache]
    ELSE IF answer = NoData
         THEN [info |-> [market_cap |-> 0, age |-> 0], cache |-> cache]
         ELSE [info |-> answer, cache |-> Put(cache, key, [info |-> answer, time |-> now])]

\* _get_holder_info: (top10, dev, holders) and the cache afterwards.
get_holder_info(cache, mint, answer) ==
    IF mint \in DOMAIN cache /\ now - cache[mint].time < HolderInfoTtl
    THEN [info |-> cache[mint].info, cache |-> cache]
    ELSE IF answer = NoData
         THEN [info |-> Holders(0, 0, 0), cache |-> cache]
         ELSE [info |-> answer, cache |-> Put(cache, mint, [info |-> answer, time |-> now])]


(***************************************************************************)
(* CopyTrader: filters, sizing, simulated execution                        *)
(***************************************************************************)
OpenMints(tokens) == {m \in DOMAIN tokens : tokens[m] > 0}

\* PositionManager.has_position / can_open_position (read by _should_copy)
has_position(token_mint) == token_mint \in DOMAIN positions
can_open_position == Cardinality(DOMAIN positions) < pm_settings.max_positions

Result(ok, reason) == [success |-> ok, error |-> reason]

in_cooldown_inverted(sell_time) == now - sell_time > sell_cooldown_seconds
in_cooldown_inclusive(sell_time) == now - sell_time <= sell_cooldown_seconds

\* copy_trader.py:410-411: elapsed = time.time() - sell_time, within the window
in_cooldown(sell_time) == now - sell_time < sell_cooldown_seconds

\* _should_copy: (should_copy, reason) and trader_sold_cooldown afterwards
\* (an expired cooldown entry is deleted on the way).
should_copy(swap) ==
    LET active == /\ is_buy(swap)
                  /\ swap.token_mint \in DOMAIN trader_sold_cooldown
                  /\ in_cooldown(trader_sold_cooldown[swap.token_mint])
        cooldown == IF is_buy(swap) /\ swap.token_mint \in DOMAIN trader_sold_cooldown
                       /\ ~active
                    THEN Pop(trader_sold_cooldown, swap.token_mint)
                    ELSE trader_sold_cooldown
        verdict ==
            IF active THEN Result(FALSE, "sell_cooldown_active")
            ELSE IF is_buy(swap) /\ position_manager # "None"
                    /\ ~has_position(swap.token_mint) /\ ~can_open_position
                 THEN Result(FALSE, "max_positions_reached")
            ELSE IF is_sell(swap) /\ ~cfg.copy_sells THEN Result(FALSE, "sell_disabled")
            ELSE IF is_buy(swap) /\ swap.sol_amount < min_sol_per_trade
                 THEN Result(FALSE, "below_min_sol")
            ELSE IF is_buy(swap) /\ swap.token_mint \in recent_copies
                 THEN Result(FALSE, "recently_copied")
            ELSE Result(TRUE, "ok")
    IN [success |-> verdict.success, error |-> verdict.error, cooldown |-> cooldown]

\* round(x, 4) of x = n/d units: the nearest integer, ties to even
RoundDiv(n, d) ==
    LET q == n \div d
        r == n % d
    IN IF 2 * r < d THEN q ELSE IF 2 * r > d THEN q + 1 ELSE IF q % 2 = 0 THEN q ELSE q + 1

\* copy_trader.py:784-787
available_sol(balance_sol, current_positions) ==
    Max2(0, balance_sol - (fee_reserve + exit_fee_reserve * (current_positions + 1)))

trade_size_without_half(available, swap, trader_total) ==
    IF cfg.copy_proportional
    THEN LET theirs == IF trader_total > 0
                       THEN RoundDiv(available * swap.sol_amount, trader_total)
                       ELSE RoundDiv(available, 10)
             floor == IF available > 0
                      THEN Max2(min_sol_per_trade, RoundDiv(15 * available, 100))
                      ELSE 0
             effective == Max2(theirs, floor)
         IN Min2(effective, max_sol_per_trade)
    ELSE Min2(RoundDiv(available * copy_balance_pct, 100),
              Min2(max_sol_per_trade, swap.sol_amount * 2))

\* copy_trader.py:798-840: trade_sol after round(trade_sol, 4).  Rounding is
\* monotone, so it is applied to each operand of min and max: the result is
\* the same and the intermediate integers stay small.
trade_size(available, swap, trader_total) ==
    IF cfg.copy_proportional
    THEN LET \* available * their_percentage
             theirs == IF trader_total > 0
                       THEN RoundDiv(available * swap.sol_amount, trader_total)
                       ELSE RoundDiv(available, 10)
             \* available * min_percentage
             floor == IF available > 0
                      THEN Max2(min_sol_per_trade, RoundDiv(15 * available, 100))
                      ELSE 0
             effective == Max2(theirs, floor)
         IN Min2(effective, Min2(RoundDiv(available, 2), max_sol_per_trade))
    ELSE Min2(RoundDiv(available * copy_balance_pct, 100),
              Min2(max_sol_per_trade, swap.sol_amount * 2))

ensure_minimum_always(rounded, available) ==
    IF rounded < min_sol_per_trade
    THEN [trade_sol |-> min_sol_per_trade, error |-> "ok"]
    ELSE [trade_sol |-> rounded, error |-> "ok"]

ensure_minimum_rejecting(rounded, available) ==
    IF rounded < min_sol_per_trade
    THEN [trade_sol |-> 0, error |-> "insufficient_balance"]
    ELSE [trade_sol |-> rounded, error |-> "ok"]

\* copy_trader.py:842-851: a size below the minimum is raised to it when the
\* available balance allows, otherwise the buy is rejected
ensure_minimum(rounded, available) ==
    IF rounded < min_sol_per_trade
    THEN IF available >= min_sol_per_trade
         THEN [trade_sol |-> min_sol_per_trade, error |-> "ok"]
         ELSE [trade_sol |-> 0, error |-> "insufficient_balance"]
    ELSE [trade_sol |-> rounded, error |-> "ok"]

\* _save_mock_state: the document written
HistoryKept == 100              \* trades_history[-100:]
saved_state(balance, tokens, entry_time, entry_sol, history) ==
    [balance |-> balance, starting_balance |-> mock_balance_sol, positions |-> tokens,
     entry_times |-> entry_time, entry_sol |-> entry_sol,
     trades_history |-> SubSeq(history, Max2(1, Len(history) - HistoryKept + 1), Len(history))]

\* _load_mock_state: the simulated state read from the state file; nothing is
\* read when the file does not exist
load_mock_state_without_entries(file) ==
    IF file = NoFile
    THEN [balance |-> mock_balance, starting_balance |-> mock_balance_sol,
          tokens |-> mock_token_positions, entry_time |-> mock_position_entry_time,
          entry_sol |-> mock_position_entry_sol, history |-> mock_trades_history]
    ELSE [balance |-> file.balance, starting_balance |-> file.starting_balance,
          tokens |-> file.positions, entry_time |-> EmptyDict,
          entry_sol |-> EmptyDict, history |-> file.trades_history]

load_mock_state(file) ==
    IF file = NoFile
    THEN [balance |-> mock_balance, starting_balance |-> mock_balance_sol,
          tokens |-> mock_token_positions, entry_time |-> mock_position_entry_time,
          entry_sol |-> mock_position_entry_sol, history |-> mock_trades_history]
    ELSE [balance |-> file.balance, starting_balance |-> file.starting_balance,
          tokens |-> file.positions, entry_time |-> file.entry_times,
          entry_sol |-> file.entry_sol, history |-> file.trades_history]

simulate_mock_buy_nearest(swap, trade_sol) ==
    LET mint == swap.token_mint
        estimated_tokens == IF swap.sol_amount > 0 /\ swap.token_amount > 0
                            THEN RoundDiv(trade_sol * swap.token_amount, swap.sol_amount)
                            ELSE trade_sol * 100
        balance == mock_balance - trade_sol
        tokens == Put(mock_token_positions, mint,
                      Get(mock_token_positions, mint, 0) + estimated_tokens)
        fresh == mint \notin DOMAIN mock_position_entry_time
        entry_time == IF fresh THEN Put(mock_position_entry_time, mint, now)
                      ELSE mock_position_entry_time
        entry_sol == IF fresh THEN Put(mock_position_entry_sol, mint, trade_sol)
                     ELSE Put(mock_position_entry_sol, mint,
                              Get(mock_position_entry_sol, mint, 0) + trade_sol)
        history == Append(mock_trades_history,
                          [type |-> "buy", full_mint |-> mint, sol |-> trade_sol,
                           tokens |-> estimated_tokens, balance_after |-> balance,
                           timestamp |-> now])
    IN [balance |-> balance, tokens |-> tokens, entry_time |-> entry_time,
        entry_sol |-> entry_sol, history |-> history,
        file |-> saved_state(balance, tokens, entry_time, entry_sol, history)]

\* _simulate_mock_buy: the simulated state after a buy of trade_sol
simulate_mock_buy(swap, trade_sol) ==
    LET mint == swap.token_mint
        estimated_tokens == IF swap.sol_amount > 0 /\ swap.token_amount > 0
                            THEN (trade_sol * swap.token_amount) \div swap.sol_amount
                            ELSE trade_sol * 100
        balance == mock_balance - trade_sol
        tokens == Put(mock_token_positions, mint,
                      Get(mock_token_positions, mint, 0) + estimated_tokens)
        fresh == mint \notin DOMAIN mock_position_entry_time
        entry_time == IF fresh THEN Put(mock_position_entry_time, mint, now)
                      ELSE mock_position_entry_time
        entry_sol == IF fresh THEN Put(mock_position_entry_sol, mint, trade_sol)
                     ELSE Put(mock_position_entry_sol, mint,
                              Get(mock_position_entry_sol, mint, 0) + trade_sol)
        history == Append(mock_trades_history,
                          [type |-> "buy", full_mint |-> mint, sol |-> trade_sol,
                           tokens |-> estimated_tokens, balance_after |-> balance,
                           timestamp |-> now])
    IN [balance |-> balance, tokens |-> tokens, entry_time |-> entry_time,
        entry_sol |-> entry_sol, history |-> history,
        file |-> saved_state(balance, tokens, entry_time, entry_sol, history)]

\* _simulate_mock_sell: the simulated state after selling token_balance
simulate_mock_sell(swap, token_balance) ==
    LET mint == swap.token_mint
        sol_received == IF swap.token_amount > 0
                        THEN (token_balance * swap.sol_amount) \div swap.token_amount
                        ELSE token_balance \div 100
        entry == Get(mock_position_entry_sol, mint, 0)
        balance == mock_balance + sol_received
        tokens == Put(mock_token_positions, mint, 0)
        entry_time == Pop(mock_position_entry_time, mint)
        entry_sol == Pop(mock_position_entry_sol, mint)
        history == Append(mock_trades_history,
                          [type |-> "sell", full_mint |-> mint, sol |-> sol_received,
                           tokens |-> token_balance, entry_sol |-> entry,
                           pnl |-> sol_received - entry, balance_after |-> balance,
                           timestamp |-> now])
    IN [balance |-> balance, tokens |-> tokens, entry_time |-> entry_time,
        entry_sol |-> entry_sol, history |-> history,
        file |-> saved_state(balance, tokens, entry_time, entry_sol, history)]


\* copy_trader.py:527-606: the token data the buy filters look at
token_health(swap, ext) ==
    LET mint == swap.token_mint
        is_pumpfun == swap.dex = "pump.fun"
        trust == cfg.trust_trader_pumpfun
        p == get_pumpfun_token_info(token_info_cache, mint, ext.pump)
        viaPump == Info(p.info.market_cap, p.info.age, p.info.market_cap \div 10, 0, 0, 100)
        d == get_token_info(IF is_pumpfun THEN p.cache ELSE token_info_cache, mint, ext.dex)
        unknown(i) == i.market_cap = 0 /\ i.age = 0
    IN IF is_pumpfun /\ trust
       THEN [info |-> ZeroInfo, cache |-> token_info_cache, error |-> "ok"]
       ELSE IF is_pumpfun
       THEN LET info == IF p.info.market_cap = 0 THEN d.info ELSE viaPump
                cache == IF p.info.market_cap = 0 THEN d.cache ELSE p.cache
            IN [info |-> info, cache |-> cache,
                error |-> IF unknown(info) THEN "token_unknown" ELSE "ok"]
       ELSE IF unknown(d.info)
            THEN IF trust
                 THEN [info |-> Info(100000, 60, 10000, 1000, 0, 100), cache |-> d.cache,
                       error |-> "ok"]
                 ELSE [info |-> d.info, cache |-> d.cache, error |-> "token_unknown"]
            ELSE [info |-> d.info, cache |-> d.cache, error |-> "ok"]

\* copy_trader.py:608-693: the token-health thresholds, in order
threshold_error(info) ==
    LET skip_filters == cfg.trust_trader_pumpfun IN
    IF skip_filters THEN "ok"
    ELSE IF min_token_age_minutes > 0 /\ info.age < min_token_age_minutes * 60
         THEN "token_too_new"
    ELSE IF min_market_cap_usd > 0 /\ info.market_cap < min_market_cap_usd
         THEN "market_cap_too_low"
    ELSE IF min_liquidity_usd > 0 /\ info.liquidity < min_liquidity_usd
         THEN "liquidity_too_low"
    ELSE IF min_volume_24h_usd > 0 /\ info.volume_24h < min_volume_24h_usd
         THEN "volume_too_low"
    ELSE IF max_price_change_1h_pct > 0 /\ info.price_change_1h > max_price_change_1h_pct
         THEN "already_pumped"
    ELSE IF min_txns_1h > 0 /\ info.txns_1h < min_txns_1h
         THEN "low_activity"
    ELSE "ok"

\* copy_trader.py:706-761: the holder-distribution thresholds
holder_check(swap, ext) ==
    LET is_pumpfun == swap.dex = "pump.fun"
        h == get_holder_info(holder_info_cache, swap.token_mint, ext.holder)
    IN IF ~is_pumpfun /\ (max_top10_holders_pct > 0 \/ max_dev_holdings_pct > 0
                          \/ min_holders_count > 0)
       THEN [cache |-> h.cache,
             error |-> IF h.info.top10_pct > 0 \/ h.info.holders_count > 0
                       THEN IF max_top10_holders_pct > 0
                               /\ h.info.top10_pct > max_top10_holders_pct
                            THEN "top10_holders_too_high"
                            ELSE IF max_dev_holdings_pct > 0
                                    /\ h.info.dev_pct > max_dev_holdings_pct
                            THEN "dev_holdings_too_high"
                            ELSE IF min_holders_count > 0
                                    /\ h.info.holders_count < min_holders_count
                            THEN "too_few_holders"
                            ELSE "ok"
                       ELSE "ok"]
       ELSE [cache |-> holder_info_cache, error |-> "ok"]

\* The engine's state as one record, so that a handler is a function on it.
Engine ==
    [balance |-> mock_balance, tokens |-> mock_token_positions,
     entry_time |-> mock_position_entry_time, entry_sol |-> mock_position_entry_sol,
     history |-> mock_trades_history, file |-> mock_state_file,
     cooldown |-> trader_sold_cooldown, recent |-> recent_copies, tasks |-> clear_tasks,
     trader_balances |-> trader_balances, token_cache |-> token_info_cache,
     holder_cache |-> holder_info_cache, stats |-> stats]

slot_available_inclusive(current_positions) == current_positions <= max_positions
slot_available_default(current_positions) == current_positions < 3

\* copy_trader.py:764-782: the max-positions check of _execute_copy
slot_available(current_positions) == current_positions < max_positions

\* copy_trader.py:886-937: what follows a successful simulated buy.  With no
\* position manager, estimated_tokens is unbound at line 916; with one, the
\* call at line 901 names parameters add_position does not have.  Either
\* exception is caught at line 932 and the buy is returned as a failure.
after_buy_result(result) ==
    IF position_manager = "None"
    THEN Result(FALSE, "UnboundLocalError")
    ELSE Result(FALSE, "TypeError")     \* add_position() got an unexpected keyword

\* _execute_copy, simulation mode: the engine afterwards and the result
execute_copy(e, swap, ext) ==
    LET mint == swap.token_mint IN
    IF ~is_buy(swap)
    THEN LET token_balance == Get(e.tokens, mint, 0)
             sim == simulate_mock_sell(swap, token_balance)
         IN IF token_balance = 0
            THEN [engine |-> [e EXCEPT !.cooldown = Put(e.cooldown, mint, now)],
                  result |-> Result(FALSE, "no_tokens_to_sell"), trade_sol |-> 0,
                  executed |-> "none"]
            ELSE [engine |-> [e EXCEPT !.balance = sim.balance, !.tokens = sim.tokens,
                                       !.entry_time = sim.entry_time,
                                       !.entry_sol = sim.entry_sol,
                                       !.history = sim.history, !.file = sim.file],
                  result |-> Result(TRUE, "ok"), trade_sol |-> 0, executed |-> "sell"]
    ELSE
    LET th == token_health(swap, ext)
        e1 == [e EXCEPT !.token_cache = th.cache]
        te == IF th.error # "ok" THEN th.error ELSE threshold_error(th.info)
        hc == holder_check(swap, ext)
        e2 == [e1 EXCEPT !.holder_cache = hc.cache]
        balance_sol == e.balance
        current_positions == Cardinality(OpenMints(e.tokens))
        available == available_sol(balance_sol, current_positions)
        known == swap.wallet \in DOMAIN e.trader_balances
        balances == IF cfg.copy_proportional /\ ~known
                    THEN Put(e.trader_balances, swap.wallet,
                             IF ext.trader = NoData THEN DefaultTraderBalance
                             ELSE ext.trader.balance)
                    ELSE e.trader_balances
        e3 == [e2 EXCEPT !.trader_balances = balances]
        rounded == trade_size(available, swap,
                              IF cfg.copy_proportional THEN balances[swap.wallet] ELSE 0)
        sized == ensure_minimum(rounded, available)
        trade_sol == sized.trade_sol
        sim == simulate_mock_buy(swap, trade_sol)
        bought == [e3 EXCEPT !.balance = sim.balance, !.tokens = sim.tokens,
                             !.entry_time = sim.entry_time, !.entry_sol = sim.entry_sol,
                             !.history = sim.history, !.file = sim.file,
                             !.recent = @ \cup {mint},
                             !.tasks = Put(@, mint, now + RecentCopyDelay),
                             !.stats.total_sol_spent = @ + trade_sol]
        Fail(eng, reason) == [engine |-> eng, result |-> Result(FALSE, reason),
                              trade_sol |-> 0, executed |-> "none"]
    IN IF te # "ok" THEN Fail(e1, te)
       ELSE IF hc.error # "ok" THEN Fail(e2, hc.error)
       ELSE IF ~slot_available(current_positions) THEN Fail(e2, "max_positions_reached")
       ELSE IF sized.error # "ok" THEN Fail(e3, sized.error)
       ELSE [engine |-> bought, result |-> after_buy_result(Result(TRUE, "ok")),
             trade_sol |-> trade_sol, executed |-> "buy"]


(***************************************************************************)
(* CopyTrader: actions                                                     *)
(***************************************************************************)
Configs == [mock_trading : BOOLEAN, copy_sells : BOOLEAN, copy_proportional : BOOLEAN,
            trust_trader_pumpfun : BOOLEAN]

\* What `last` records of a handled transaction: the swap, when it was handled,
\* what the engine held just before (held: tokens of the swap's mint, open:
\* number of open positions, cooldown: the mint's cooldown timestamp or -1),
\* how the handling ended and which parts of the engine's state it changed.
NoEvent == [seq |-> 0, swap |-> NoSwap, at |-> 0, held |-> FALSE, open |-> 0,
            cooldown |-> -1, outcome |-> "none", error |-> "", executed |-> "none",
            trade_sol |-> 0, changed |-> {}]

Changed(a, b) ==
    {n \in {"balance"} : a.balance # b.balance}
    \cup {n \in {"positions"} : OpenMints(a.tokens) # OpenMints(b.tokens)}
    \cup {n \in {"tokens"} : a.tokens # b.tokens}
    \cup {n \in {"recent_copies"} : a.recent # b.recent}
    \cup {n \in {"cooldown"} : a.cooldown # b.cooldown}
    \cup {n \in {"total_sol_spent"} : a.stats.total_sol_spent # b.stats.total_sol_spent}
    \cup {n \in {"total_copied"} : a.stats.total_copied # b.stats.total_copied}
    \cup {n \in {"total_skipped"} : a.stats.total_skipped # b.stats.total_skipped}
    \cup {n \in {"total_failed"} : a.stats.total_failed # b.stats.total_failed}

PmSettings == [max_positions |-> max_positions]

TraderInit ==
    /\ cfg \in Configs
    /\ phase = "created"
    /\ position_manager = "None"
    /\ now = 0
    /\ mock_balance = mock_balance_sol
    /\ mock_token_positions = EmptyDict
    /\ mock_position_entry_time = EmptyDict
    /\ mock_position_entry_sol = EmptyDict
    /\ trader_sold_cooldown = EmptyDict
    /\ recent_copies = {}
    /\ clear_tasks = EmptyDict
    /\ trader_balances = EmptyDict
    /\ token_info_cache = EmptyDict
    /\ holder_info_cache = EmptyDict
    /\ stats = [total_detected |-> 0, total_copied |-> 0, total_skipped |-> 0,
                total_failed |-> 0, total_sol_spent |-> 0]
    /\ mock_trades_history = <<>>
    /\ mock_state_file = NoFile
    /\ sweep = [state |-> "off", due |-> 0, rest |-> {}, seen |-> EmptyDict]
    /\ last = NoEvent

PollerIdle ==
    /\ chain = EmptyDict
    /\ seen_signatures = EmptyDict
    /\ target_wallets = <<>>
    /\ poll = [state |-> "off"]
    /\ fetched = EmptyDict
    /\ delivered = EmptyDict

LedgerIdle ==
    /\ positions = EmptyDict
    /\ pm_stats = [total_sells |-> 0, total_abandoned |-> 0, total_profit_sol |-> 0,
                   total_loss_sol |-> 0]
    /\ pm_settings = PmSettings
    /\ monitor = [state |-> "off"]
    /\ exit_log = [reason |-> "none"]

DetectorIdle ==
    /\ raw = NoData
    /\ handed = "nothing"
    /\ parsed = NoSwap

Init == TraderInit /\ PollerIdle /\ LedgerIdle /\ DetectorIdle

SetEngine(e) ==
    /\ mock_balance' = e.balance
    /\ mock_token_positions' = e.tokens
    /\ mock_position_entry_time' = e.entry_time
    /\ mock_position_entry_sol' = e.entry_sol
    /\ mock_trades_history' = e.history
    /\ mock_state_file' = e.file
    /\ trader_sold_cooldown' = e.cooldown
    /\ recent_copies' = e.recent
    /\ clear_tasks' = e.tasks
    /\ trader_balances' = e.trader_balances
    /\ token_info_cache' = e.token_cache
    /\ holder_info_cache' = e.holder_cache
    /\ stats' = e.stats

\* CopyTrader.start in simulation mode: no position manager is created, the
\* cleanup loop is started, the monitor starts delivering.
StartMock ==
    /\ phase = "created" /\ cfg.mock_trading
    /\ phase' = "running"
    /\ sweep' = [state |-> "sleeping", due |-> now + 60, rest |-> {}, seen |-> EmptyDict]
    /\ UNCHANGED <<cfg, position_manager, now, mock_balance, mock_token_positions,
                   mock_position_entry_time, mock_position_entry_sol,
                   trader_sold_cooldown, recent_copies, clear_tasks, trader_balances,
                   token_info_cache, holder_info_cache, stats, mock_trades_history,
                   mock_state_file, last>>
    /\ UNCHANGED <<pollerVars, ledgerVars, detectorVars>>

\* CopyTrader.start in live mode: PositionManager(...) is called with
\* mcap_stop_loss_usd, which PositionManager.__init__ does not accept; the
\* TypeError leaves start() before the monitor exists (main_copy.py:139).
StartLive ==
    /\ phase = "created" /\ ~cfg.mock_trading
    /\ phase' = "crashed"
    /\ UNCHANGED <<cfg, position_manager, now, mock_balance, mock_token_positions,
                   mock_position_entry_time, mock_position_entry_sol,
                   trader_sold_cooldown, recent_copies, clear_tasks, trader_balances,
                   token_info_cache, holder_info_cache, stats, mock_trades_history,
                   mock_state_file, sweep, last>>
    /\ UNCHANGED <<pollerVars, ledgerVars, detectorVars>>

\* The answers that can matter to the handling of `swap`
RelevantExt(swap) ==
    {x \in ExtAnswers(IF swap = NoSwap THEN "X" ELSE swap.token_mint) :
        /\ x.pump # NoData => is_buy(swap) /\ swap.dex = "pump.fun"
                              /\ ~cfg.trust_trader_pumpfun
        /\ x.dex # NoData => is_buy(swap)
                             /\ ~(swap.dex = "pump.fun" /\ cfg.trust_trader_pumpfun)
        /\ x.holder # NoData => is_buy(swap) /\ swap.dex # "pump.fun"
        /\ x.trader # NoData => is_buy(swap) /\ cfg.copy_proportional
                                /\ swap.wallet \notin DOMAIN trader_balances}

\* _on_transaction for a transaction the parser turns into `swap` (or NoSwap).
\* The branch at lines 365-378 needs a position manager, and there is none
\* while the monitor runs.
on_transaction(swap, ext) ==
    LET counted == [Engine EXCEPT !.stats.total_detected = @ + 1]
        Done(e, outcome, error, executed, trade_sol) ==
            [engine |-> e,
             event |-> [seq |-> stats.total_detected + 1, swap |-> swap, at |-> now,
                        held |-> swap # NoSwap
                                 /\ Get(mock_token_positions, swap.token_mint, 0) > 0,
                        open |-> Cardinality(OpenMints(mock_token_positions)),
                        cooldown |-> IF swap = NoSwap THEN -1
                                     ELSE Get(trader_sold_cooldown, swap.token_mint, -1),
                        outcome |-> outcome, error |-> error, executed |-> executed,
                        trade_sol |-> trade_sol, changed |-> Changed(Engine, e)]]
        sc == should_copy(swap)
        checked == [counted EXCEPT !.cooldown = sc.cooldown]
        x == execute_copy(checked, swap, ext)
    IN IF swap = NoSwap
       THEN Done(counted, "no_swap", "", "none", 0)
       ELSE IF ~sc.success
       THEN Done([checked EXCEPT !.stats.total_skipped = @ + 1], "skipped", sc.error,
                 "none", 0)
       ELSE IF x.result.success
       THEN Done([x.engine EXCEPT !.stats.total_copied = @ + 1], "copied", "",
                 x.executed, x.trade_sol)
       ELSE Done([x.engine EXCEPT !.stats.total_failed = @ + 1], "failed",
                 x.result.error, x.executed, x.trade_sol)

OnTransaction ==
    /\ phase = "running" /\ position_manager = "None"
    /\ stats.total_detected < MaxEvents
    /\ \E swap \in Swaps \cup {NoSwap} : \E ext \in RelevantExt(swap) :
          LET h == on_transaction(swap, ext) IN
          /\ SetEngine(h.engine)
          /\ last' = h.event
    /\ UNCHANGED <<cfg, phase, position_manager, now, sweep>>
    /\ UNCHANGED <<pollerVars, ledgerVars, detectorVars>>
ClearRecentCopyEarly ==
    /\ phase = "running"
    /\ \E mint \in DOMAIN clear_tasks :
          /\ recent_copies' = recent_copies \ {mint}
          /\ clear_tasks' = Pop(clear_tasks, mint)
    /\ UNCHANGED <<cfg, phase, position_manager, now, mock_balance, mock_token_positions,
                   mock_position_entry_time, mock_position_entry_sol,
                   trader_sold_cooldown, trader_balances, token_info_cache,
                   holder_info_cache, stats, mock_trades_history, mock_state_file,
                   sweep, last>>
    /\ UNCHANGED <<pollerVars, ledgerVars, detectorVars>>

\* _clear_recent_copy: the task wakes up once its delay has passed
ClearRecentCopy ==
    /\ phase = "running"
    /\ \E mint \in DOMAIN clear_tasks :
          /\ now >= clear_tasks[mint]
          /\ recent_copies' = recent_copies \ {mint}
          /\ clear_tasks' = Pop(clear_tasks, mint)
    /\ UNCHANGED <<cfg, phase, position_manager, now, mock_balance, mock_token_positions,
                   mock_position_entry_time, mock_position_entry_sol,
                   trader_sold_cooldown, trader_balances, token_info_cache,
                   holder_info_cache, stats, mock_trades_history, mock_state_file,
                   sweep, last>>
    /\ UNCHANGED <<pollerVars, ledgerVars, detectorVars>>

\* time passes
Tick ==
    /\ phase = "running"
    /\ now < MaxTime
    /\ now' = now + TickSec
    /\ UNCHANGED <<cfg, phase, position_manager, mock_balance, mock_token_positions,
                   mock_position_entry_time, mock_position_entry_sol,
                   trader_sold_cooldown, recent_copies, clear_tasks, trader_balances,
                   token_info_cache, holder_info_cache, stats, mock_trades_history,
                   mock_state_file, sweep, last>>
    /\ UNCHANGED <<pollerVars, ledgerVars, detectorVars>>


\* _cleanup_stale_mock_positions, lines 203-218: after the 60 s sleep of
\* _mock_position_cleanup_loop the active mints are read
SweepStart ==
    /\ phase = "running"
    /\ sweep.state = "sleeping" /\ now >= sweep.due
    /\ LET active_mints == OpenMints(mock_token_positions) IN
       sweep' = IF active_mints = {}
                THEN [state |-> "sleeping", due |-> now + 60, rest |-> {}, seen |-> EmptyDict]
                ELSE [state |-> "checking", due |-> sweep.due, rest |-> active_mints,
                      seen |-> [m \in active_mints |-> mock_token_positions[m]]]
    /\ UNCHANGED <<cfg, phase, position_manager, now, mock_balance, mock_token_positions,
                   mock_position_entry_time, mock_position_entry_sol,
                   trader_sold_cooldown, recent_copies, clear_tasks, trader_balances,
                   token_info_cache, holder_info_cache, stats, mock_trades_history,
                   mock_state_file, last>>
    /\ UNCHANGED <<pollerVars, ledgerVars, detectorVars>>

\* lines 228-235: the reason to abandon a simulated position, or "none"
rug_reason(info) ==
    IF info.liquidity < MIN_LIQUIDITY_USD /\ info.liquidity > 0 THEN "liquidity_too_low"
    ELSE IF info.market_cap < MIN_MARKET_CAP_USD /\ info.market_cap > 0
         THEN "mcap_too_low"
    ELSE IF info.market_cap = 0 /\ info.liquidity = 0 /\ info.age > 5 * 60
         THEN "not_on_dexscreener_anymore"
    ELSE "none"

\* lines 220-253: one mint of the sweep, from the token lookup to the clearing
SweepStep ==
    /\ phase = "running"
    /\ sweep.state = "checking"
    /\ \E mint \in sweep.rest : \E answer \in {DexScreener(mint), NoData} :
          LET t == get_token_info(token_info_cache, mint, answer)
              rest == sweep.rest \ {mint}
          IN /\ t.asked \/ answer = NoData
             /\ token_info_cache' = t.cache
             /\ IF rug_reason(t.info) # "none"
                THEN /\ mock_token_positions' = Put(mock_token_positions, mint, 0)
                     /\ mock_position_entry_time' = Pop(mock_position_entry_time, mint)
                     /\ mock_position_entry_sol' = Pop(mock_position_entry_sol, mint)
                ELSE UNCHANGED <<mock_token_positions, mock_position_entry_time,
                                 mock_position_entry_sol>>
             /\ sweep' = IF rest = {}
                         THEN [state |-> "sleeping", due |-> now + 60, rest |-> {}, seen |-> EmptyDict]
                         ELSE [sweep EXCEPT !.rest = rest]
    /\ UNCHANGED <<cfg, phase, position_manager, now, mock_balance,
                   trader_sold_cooldown, recent_copies, clear_tasks, trader_balances,
                   holder_info_cache, stats, mock_trades_history, mock_state_file, last>>
    /\ UNCHANGED <<pollerVars, ledgerVars, detectorVars>>

(***************************************************************************)
(* WalletMonitor: the poll loop                                            *)
(***************************************************************************)
MaxPolls == 2           \* rounds of _poll_all_wallets in a run
SeedLimit == 20         \* _initialize_seen_signatures asks for 20 signatures
PollLimit == 5          \* _poll_wallet asks for 5

\* copy_trader.py:167 builds the monitor with the configured wallets; the bot
\* itself never calls add_wallet or remove_wallet afterwards.
Wallets == <<"W1", "W2">>
Sigs == {"s0", "s1", "s2"}      \* s0 is on both wallets before the monitor starts
FetchOutcomes == {"none", "raise", "failed", "ok", "handler_error"}

Take(seq, n) == SubSeq(seq, 1, Min2(n, Len(seq)))
Range(seq) == {seq[i] : i \in 1..Len(seq)}

\* _get_recent_signatures: the newest `limit` signatures, [] when the answer
\* has no "result"; the request may also raise
recent_signatures(wallet, limit, answer) ==
    IF answer = "ok" THEN Take(chain[wallet], limit) ELSE <<>>

NoNote == [n |-> 0, wallet |-> "", sig |-> "", kind |-> "none"]

PollerInit ==
    /\ chain = [w \in Range(Wallets) |-> <<"s0">>]
    /\ seen_signatures = [w \in Range(Wallets) |-> {}]
    /\ target_wallets = Wallets
    /\ poll = [state |-> "created", i |-> 1, sigs |-> <<>>, round |-> 0, note |-> NoNote,
               running |-> FALSE, calls |-> 0]
    /\ fetched = [k \in Range(Wallets) \X Sigs |-> 0]
    /\ delivered = [k \in Range(Wallets) \X Sigs |-> 0]

\* A tracked wallet signs a transaction: it becomes the newest of its history
Publish ==
    /\ \E w \in Range(target_wallets) : \E s \in Sigs \ Range(chain[w]) :
          chain' = [chain EXCEPT ![w] = <<s>> \o @]
    /\ UNCHANGED <<seen_signatures, target_wallets, poll, fetched, delivered>>
    /\ UNCHANGED <<traderVars, ledgerVars, detectorVars>>

\* WalletMonitor.start up to the first wallet of _initialize_seen_signatures
MonitorStart ==
    /\ poll.state = "created"
    /\ poll' = [poll EXCEPT !.state = "seeding", !.i = 1, !.running = TRUE]
    /\ UNCHANGED <<chain, seen_signatures, target_wallets, fetched, delivered>>
    /\ UNCHANGED <<traderVars, ledgerVars, detectorVars>>

next_wallet_abandon(p, loop) == [p EXCEPT !.state = "sleeping", !.i = 1, !.sigs = <<>>]

\* Leaving wallet number i of a loop over target_wallets
next_wallet(p, loop) ==
    IF p.i < Len(target_wallets)
    THEN [p EXCEPT !.state = loop, !.i = @ + 1, !.sigs = <<>>]
    ELSE [p EXCEPT !.state = "sleeping", !.i = 1, !.sigs = <<>>]

\* _initialize_seen_signatures, one wallet: the seen set becomes the recent
\* signatures; an exception is logged and the wallet's set stays as it is
SeedWallet ==
    /\ poll.state = "seeding"
    /\ LET wallet == target_wallets[poll.i] IN
       \E answer \in {"ok", "no_result", "raise"} :
          /\ seen_signatures' =
                IF answer = "raise" THEN seen_signatures
                ELSE [seen_signatures EXCEPT
                         ![wallet] = Range(recent_signatures(wallet, SeedLimit, answer))]
          /\ poll' = next_wallet(poll, "seeding")
    /\ UNCHANGED <<chain, target_wallets, fetched, delivered>>
    /\ UNCHANGED <<traderVars, ledgerVars, detectorVars>>

\* start, lines 64-71: `while self.running` after the sleep; a round of
\* _poll_all_wallets begins, or the loop and start() end
PollRound ==
    /\ poll.state = "sleeping"
    /\ poll.round < MaxPolls
    /\ poll' = IF poll.running
               THEN [poll EXCEPT !.state = "polling", !.i = 1, !.round = @ + 1]
               ELSE [poll EXCEPT !.state = "returned"]
    /\ UNCHANGED <<chain, seen_signatures, target_wallets, fetched, delivered>>
    /\ UNCHANGED <<traderVars, ledgerVars, detectorVars>>

\* _poll_wallet, line 144: the recent signatures of wallet number i; an
\* exception leaves _poll_wallet and is logged by _poll_all_wallets
PollWallet ==
    /\ poll.state = "polling"
    /\ LET wallet == target_wallets[poll.i] IN
       \E answer \in {"ok", "no_result", "raise"} :
          poll' = IF answer = "raise" THEN next_wallet(poll, "polling")
                  ELSE [poll EXCEPT !.state = "visiting",
                                    !.sigs = recent_signatures(wallet, PollLimit, answer)]
    /\ UNCHANGED <<chain, seen_signatures, target_wallets, fetched, delivered>>
    /\ UNCHANGED <<traderVars, ledgerVars, detectorVars>>

is_new_first_wallet(wallet, sig) == sig \notin seen_signatures[target_wallets[1]]

\* line 146: `sig in self.seen_signatures[wallet]` decides the skip
is_new(wallet, sig) == sig \notin seen_signatures[wallet]

\* _poll_wallet, lines 146-180: one signature of the list.  A new signature
\* is marked seen, its body is fetched, and the handler is called for a
\* transaction that succeeded.
Visit ==
    /\ poll.state = "visiting" /\ poll.sigs # <<>>
    /\ LET wallet == target_wallets[poll.i]
           sig == Head(poll.sigs)
           key == <<wallet, sig>>
           rest == [poll EXCEPT !.sigs = Tail(@)]
           Noted(p, kind) == [p EXCEPT !.note = [n |-> poll.note.n + 1, wallet |-> wallet,
                                                 sig |-> sig, kind |-> kind]]
       IN IF ~is_new(wallet, sig)
          THEN /\ poll' = Noted(rest, "skip")
               /\ UNCHANGED <<seen_signatures, fetched, delivered>>
          ELSE \E outcome \in FetchOutcomes :
                  /\ seen_signatures' = [seen_signatures EXCEPT ![wallet] = @ \cup {sig}]
                  /\ fetched' = [fetched EXCEPT ![key] = @ + 1]
                  /\ delivered' = IF outcome \in {"ok", "handler_error"}
                                  THEN [delivered EXCEPT ![key] = @ + 1]
                                  ELSE delivered
                  /\ poll' = IF outcome = "raise"
                             THEN Noted(next_wallet(poll, "polling"), outcome)
                             ELSE Noted(rest, outcome)
    /\ UNCHANGED <<chain, target_wallets>>
    /\ UNCHANGED <<traderVars, ledgerVars, detectorVars>>

\* the list of wallet number i is exhausted
WalletDone ==
    /\ poll.state = "visiting" /\ poll.sigs = <<>>
    /\ poll' = next_wallet(poll, "polling")
    /\ UNCHANGED <<chain, seen_signatures, target_wallets, fetched, delivered>>
    /\ UNCHANGED <<traderVars, ledgerVars, detectorVars>>

PollerNext ==
    \/ Publish
    \/ MonitorStart
    \/ SeedWallet
    \/ PollRound
    \/ PollWallet
    \/ Visit
    \/ WalletDone

(***************************************************************************)
(* PositionManager                                                         *)
(***************************************************************************)
MaxAdds == 2            \* add_position calls in a run
MaxCycles == 2          \* rounds of _check_all_positions in a run
LedgerMints == {"X", "Y"}
EntrySols == {10, 1000}         \* 0.001 and 0.1 SOL
Quotes == {30, 700, 2500}       \* outAmount of a quote, in 0.0001 SOL
rug_abandon_sol == 50           \* 0.005 SOL

\* The thresholds PositionManager.__init__ stores: its defaults (take profit
\* only), each optional exit alone, and all of them enabled
Settings(take_profit, time_limit, trailing_stop) ==
    [max_positions |-> max_positions, take_profit_pct |-> take_profit,
     stop_loss_pct |-> 0 - 25,      \* STOP_LOSS_PCT = -25: a quarter of the entry lost
     time_limit_minutes |-> time_limit, trailing_stop_pct |-> trailing_stop,
     rug_abandon_sol |-> rug_abandon_sol]
LedgerSettings ==
    {Settings(100, 0, 0), Settings(0, 1, 0), Settings(0, 0, 20), Settings(100, 1, 20)}

\* Position.age_minutes >= limit, with the age in seconds
age_reached(position, minutes) == now - position.entry_time >= minutes * 60

\* Position.pnl_percent >= pct
pnl_at_least(position, pct) ==
    IF position.entry_sol = 0 THEN 0 >= pct
    ELSE (position.current_value_sol - position.entry_sol) * 100
            >= pct * position.entry_sol

take_profit_due(position) ==
    pm_settings.take_profit_pct > 0 /\ pnl_at_least(position, pm_settings.take_profit_pct)

time_limit_due(position) ==
    pm_settings.time_limit_minutes > 0
    /\ age_reached(position, pm_settings.time_limit_minutes)

trailing_stop_due_unprofitable(position) ==
    /\ pm_settings.trailing_stop_pct > 0
    /\ position.highest_value_sol > 0
    /\ (position.current_value_sol - position.highest_value_sol) * 100
          <= (0 - pm_settings.trailing_stop_pct) * position.highest_value_sol

\* drop_from_high <= -trailing_stop_pct, once the position has been profitable
trailing_stop_due(position) ==
    /\ pm_settings.trailing_stop_pct > 0
    /\ position.highest_value_sol > position.entry_sol
    /\ (position.current_value_sol - position.highest_value_sol) * 100
          <= (0 - pm_settings.trailing_stop_pct) * position.highest_value_sol

should_exit_profit_first(position) ==
    IF take_profit_due(position) THEN "take_profit"
    ELSE IF position.current_value_sol < pm_settings.rug_abandon_sol THEN "abandoned"
    ELSE IF time_limit_due(position) THEN "time_limit"
    ELSE IF trailing_stop_due(position) THEN "stop_loss"
    ELSE "none"

\* _should_exit: the exit reason, or "none"
should_exit(position) ==
    IF position.current_value_sol < pm_settings.rug_abandon_sol THEN "abandoned"
    ELSE IF take_profit_due(position) THEN "take_profit"
    ELSE IF time_limit_due(position) THEN "time_limit"
    ELSE IF trailing_stop_due(position) THEN "stop_loss"
    ELSE "none"

\* _update_position_value: the position after a quote (NoData: no quote, or
\* the request raised)
\* int(quote.get("outAmount", 0))
out_amount(quote) == IF "outAmount" \in DOMAIN quote THEN quote.outAmount ELSE 0

update_position_value(position, quote) ==
    IF quote = NoData THEN position
    ELSE [position EXCEPT !.current_value_sol = out_amount(quote),
                          !.highest_value_sol = Max2(@, out_amount(quote))]
sell_position_counting_abandon(token_mint, reason, position, sold) ==
    IF reason = "abandoned"
    THEN [positions |-> Pop(positions, token_mint),
          stats |-> [pm_stats EXCEPT !.total_abandoned = @ + 1, !.total_sells = @ + 1,
                                     !.total_loss_sol = @ + position.entry_sol],
          result |-> "abandoned"]
    ELSE IF sold = NoData
    THEN [positions |-> positions, stats |-> pm_stats, result |-> "sell_failed"]
    ELSE LET pnl_sol == sold.outAmount - position.entry_sol IN
         [positions |-> Pop(positions, token_mint),
          stats |-> [pm_stats EXCEPT
                        !.total_sells = @ + 1,
                        !.total_profit_sol = IF pnl_sol > 0 THEN @ + pnl_sol ELSE @,
                        !.total_loss_sol = IF pnl_sol > 0 THEN @ ELSE @ - pnl_sol],
          result |-> IF token_mint \in DOMAIN positions THEN "sold" ELSE "KeyError"]

\* _sell_position after `position = self.positions.get(token_mint)` found
\* the position: positions and counters afterwards; `sold` is what
\* _execute_sell returns (NoData: it failed).  After a sale the counters are
\* updated from the Position object read before the await, and
\* `del self.positions[token_mint]` removes whatever the table holds for the
\* mint by then; without an entry it raises KeyError, which line 399 turns
\* into a failed SellResult.
sell_position(token_mint, reason, position, sold) ==
    IF reason = "abandoned"
    THEN [positions |-> Pop(positions, token_mint),
          stats |-> [pm_stats EXCEPT !.total_abandoned = @ + 1,
                                     !.total_loss_sol = @ + position.entry_sol],
          result |-> "abandoned"]
    ELSE IF sold = NoData
    THEN [positions |-> positions, stats |-> pm_stats, result |-> "sell_failed"]
    ELSE LET pnl_sol == sold.outAmount - position.entry_sol IN
         [positions |-> Pop(positions, token_mint),
          stats |-> [pm_stats EXCEPT
                        !.total_sells = @ + 1,
                        !.total_profit_sol = IF pnl_sol > 0 THEN @ + pnl_sol ELSE @,
                        !.total_loss_sol = IF pnl_sol > 0 THEN @ ELSE @ - pnl_sol],
          result |-> IF token_mint \in DOMAIN positions THEN "sold" ELSE "KeyError"]

\* a 200 response of the quote API whose body has no outAmount
NoOutAmount == [error |-> "no_route"]
\* what _get_quote returns: a quote, such a body, or None (NoData) after a
\* request error or another status
QuoteAnswers == {[outAmount |-> q] : q \in Quotes} \cup {NoOutAmount, NoData}
SellAnswers == {[outAmount |-> 700], NoData}    \* what _execute_sell brings in
\* The exit conditions of _should_exit that hold for a position
conditions_due(position) ==
    {c \in {"take_profit"} : take_profit_due(position)}
    \cup {c \in {"time_limit"} : time_limit_due(position)}
    \cup {c \in {"trailing_stop"} : trailing_stop_due(position)}

\* exit_log: the last evaluation by _should_exit (the value it saw, the
\* conditions that held, its answer) or the last call of _sell_position
\* or the last call of add_position (value: the entry_sol passed, before: what
\* the table held for the mint when it was called)
NoPrior == [entry_sol |-> 0, token_amount |-> 0]
NoExit == [kind |-> "none", token_mint |-> "", value |-> 0, due |-> {},
           reason |-> "none", result |-> "none", before |-> NoPrior]
\* what a call of _sell_position leaves in exit_log: the Position object it
\* read (by its entry signature), the one its caller decided on, and the
\* number of _execute_sell calls it made
Sale(kind, token_mint, reason, result, sold_sig, decided_sig, attempts) ==
    [kind |-> kind, token_mint |-> token_mint, value |-> 0, due |-> {},
     reason |-> reason, result |-> result, before |-> NoPrior,
     sold |-> sold_sig, decided |-> decided_sig, attempts |-> attempts]

LedgerInit ==
    /\ positions = EmptyDict
    /\ pm_stats = [total_sells |-> 0, total_abandoned |-> 0, total_profit_sol |-> 0,
                   total_loss_sol |-> 0]
    /\ pm_settings \in LedgerSettings
    /\ monitor = [state |-> "sleeping", rest |-> EmptyDict, to_sell |-> {}, cycles |-> 0,
                  opened |-> 0, sales |-> EmptyDict, closed |-> EmptyDict]
    /\ exit_log = NoExit

\* monitor.sales holds the calls of _sell_position that wait in
\* `await self._execute_sell(position)`: the one of the monitor loop and the
\* one of the transaction handler, with the Position object each has read.
\* monitor.closed counts, for each Position object, the sales booked for it.
InFlight(caller) == caller \in DOMAIN monitor.sales
Booked(sig, result) ==
    IF result \in {"sold", "KeyError"}
    THEN Put(monitor.closed, sig, Get(monitor.closed, sig, 0) + 1)
    ELSE monitor.closed

BoughtTokens == 1000    \* token_amount of every add_position call

\* add_position: the table afterwards; the new Position replaces whatever the
\* table held for the mint
add_position(token_mint, entry_sol, token_amount) ==
    Put(positions, token_mint,
        [entry_sol |-> entry_sol, token_amount |-> token_amount, entry_time |-> now,
         entry_signature |-> monitor.opened + 1, current_value_sol |-> entry_sol,
         highest_value_sol |-> entry_sol])

\* add_position, called after the check of copy_trader.py:772-777.  The
\* entry signature names the Position object: opened counts the calls.
AddPosition ==
    /\ monitor.opened < MaxAdds
    /\ ~InFlight("handler")
    /\ Cardinality(DOMAIN positions) < pm_settings.max_positions
    /\ \E token_mint \in LedgerMints : \E entry_sol \in EntrySols :
          /\ positions' = add_position(token_mint, entry_sol, BoughtTokens)
          /\ exit_log' = [kind |-> "added", token_mint |-> token_mint,
                          value |-> entry_sol, due |-> {},
                          reason |-> IF token_mint \in DOMAIN positions THEN "increase"
                                     ELSE "open",
                          result |-> "none",
                          before |-> IF token_mint \in DOMAIN positions
                                     THEN [entry_sol |-> positions[token_mint].entry_sol,
                                           token_amount |->
                                               positions[token_mint].token_amount]
                                     ELSE NoPrior]
    /\ monitor' = [monitor EXCEPT !.opened = @ + 1]
    /\ UNCHANGED <<pm_stats, pm_settings>>
    /\ UNCHANGED <<traderVars, pollerVars, detectorVars>>

\* trigger_sell with reason COPIED_SELL, up to the await in _sell_position
TriggerSell ==
    /\ ~InFlight("handler")
    /\ \E token_mint \in LedgerMints :
          IF token_mint \notin DOMAIN positions
          THEN /\ exit_log' = Sale("trigger_sell", token_mint, "copied_sell",
                                   "no_position_for_token", 0, 0, 0)
               /\ UNCHANGED monitor
          ELSE /\ monitor' = [monitor EXCEPT
                                !.sales = Put(@, "handler",
                                              [token_mint |-> token_mint,
                                               reason |-> "copied_sell",
                                               position |-> positions[token_mint],
                                               decided |->
                                                  positions[token_mint].entry_signature])]
               /\ UNCHANGED exit_log
    /\ UNCHANGED <<positions, pm_stats, pm_settings>>
    /\ UNCHANGED <<traderVars, pollerVars, detectorVars>>

\* _sell_position from the return of _execute_sell on, for either caller
SellReturns ==
    /\ \E caller \in DOMAIN monitor.sales : \E sold \in SellAnswers :
          LET sale == monitor.sales[caller]
              r == sell_position(sale.token_mint, sale.reason, sale.position, sold)
          IN /\ positions' = r.positions
             /\ pm_stats' = r.stats
             /\ monitor' = [monitor EXCEPT
                               !.sales = Pop(@, caller),
                               !.closed = Booked(sale.position.entry_signature, r.result)]
             /\ exit_log' = Sale(IF caller = "handler" THEN "trigger_sell" ELSE "exit",
                                 sale.token_mint, sale.reason, r.result,
                                 sale.position.entry_signature, sale.decided, 1)
    /\ UNCHANGED pm_settings
    /\ UNCHANGED <<traderVars, pollerVars, detectorVars>>

\* _monitor_loop wakes up; _check_all_positions, lines 224-230: nothing to do
\* without positions, otherwise the positions are listed
CheckStart ==
    /\ monitor.state = "sleeping"
    /\ monitor.cycles < MaxCycles
    /\ monitor' = IF DOMAIN positions = {}
                  THEN [monitor EXCEPT !.cycles = @ + 1]
                  ELSE [monitor EXCEPT !.state = "checking", !.rest = positions,
                                       !.to_sell = {}, !.cycles = @ + 1]
    /\ UNCHANGED <<positions, pm_stats, pm_settings, exit_log>>
    /\ UNCHANGED <<traderVars, pollerVars, detectorVars>>

\* lines 230-245: one listed position is revalued and evaluated.  The listed
\* object is the one in the table unless it was removed or replaced since.
CheckPosition ==
    /\ monitor.state = "checking" /\ DOMAIN monitor.rest # {}
    /\ \E token_mint \in DOMAIN monitor.rest : \E quote \in QuoteAnswers :
          LET listed == monitor.rest[token_mint]
              same == /\ token_mint \in DOMAIN positions
                      /\ positions[token_mint].entry_signature = listed.entry_signature
              held == IF same THEN positions[token_mint] ELSE listed
              position == update_position_value(held, quote)
              exit_reason == should_exit(position)
          IN /\ positions' = IF same THEN Put(positions, token_mint, position)
                             ELSE positions
             /\ monitor' = [monitor EXCEPT
                               !.rest = Pop(@, token_mint),
                               !.to_sell = IF exit_reason = "none" THEN @
                                           ELSE @ \cup {<<token_mint, exit_reason,
                                                           listed.entry_signature>>}]
             /\ exit_log' = [kind |-> "evaluated", token_mint |-> token_mint,
                             value |-> position.current_value_sol,
                             entry |-> position.entry_sol,
                             peak |-> position.highest_value_sol,
                             due |-> conditions_due(position), reason |-> exit_reason,
                             result |-> "none",
                             quote |-> IF quote = NoData THEN "none"
                                       ELSE IF quote = NoOutAmount THEN "no_amount"
                                       ELSE "ok",
                             before |-> IF quote \in {NoData, NoOutAmount}
                                        THEN [value |-> held.current_value_sol,
                                              peak |-> held.highest_value_sol]
                                        ELSE NoPrior]
    /\ UNCHANGED <<pm_stats, pm_settings>>
    /\ UNCHANGED <<traderVars, pollerVars, detectorVars>>

\* lines 247-251: the collected exits are executed one after the other, then
\* the loop sleeps.  An entry is (token_mint, reason); its third component
\* names the Position object the reason was computed for.  _sell_position
\* runs to its end for a mint without position and for the reason abandoned,
\* and otherwise up to the await of _execute_sell.
SellDue ==
    /\ monitor.state = "checking" /\ DOMAIN monitor.rest = {}
    /\ ~InFlight("monitor")
    /\ IF monitor.to_sell = {}
       THEN /\ monitor' = [monitor EXCEPT !.state = "sleeping"]
            /\ UNCHANGED <<positions, pm_stats, exit_log>>
       ELSE \E due \in monitor.to_sell :
               LET token_mint == due[1]
                   reason == due[2]
                   rest == monitor.to_sell \ {due}
               IN IF token_mint \notin DOMAIN positions
                  THEN /\ monitor' = [monitor EXCEPT !.to_sell = rest]
                       /\ exit_log' = Sale("exit", token_mint, reason,
                                           "position_not_found", 0, due[3], 0)
                       /\ UNCHANGED <<positions, pm_stats>>
                  ELSE LET position == positions[token_mint] IN
                       IF reason = "abandoned"
                       THEN LET r == sell_position(token_mint, reason, position, NoData)
                            IN /\ positions' = r.positions
                               /\ pm_stats' = r.stats
                               /\ monitor' = [monitor EXCEPT !.to_sell = rest]
                               /\ exit_log' = Sale("exit", token_mint, reason, r.result,
                                                   position.entry_signature, due[3], 0)
                       ELSE /\ monitor' = [monitor EXCEPT
                                             !.to_sell = rest,
                                             !.sales = Put(@, "monitor",
                                                           [token_mint |-> token_mint,
                                                            reason |-> reason,
                                                            position |-> position,
                                                            decided |-> due[3]])]
                            /\ UNCHANGED <<positions, pm_stats, exit_log>>
    /\ UNCHANGED pm_settings
    /\ UNCHANGED <<traderVars, pollerVars, detectorVars>>

\* time passes for the position manager
LedgerTick ==
    /\ now < MaxTime
    /\ now' = now + TickSec
    /\ UNCHANGED <<cfg, phase, position_manager, mock_balance, mock_token_positions,
                   mock_position_entry_time, mock_position_entry_sol,
                   trader_sold_cooldown, recent_copies, clear_tasks, trader_balances,
                   token_info_cache, holder_info_cache, stats, mock_trades_history,
                   mock_state_file, sweep, last>>
    /\ UNCHANGED <<pollerVars, ledgerVars, detectorVars>>

LedgerNext ==
    \/ AddPosition
    \/ TriggerSell
    \/ SellReturns
    \/ CheckStart
    \/ CheckPosition
    \/ SellDue
    \/ LedgerTick

Next ==
    \/ StartMock
    \/ StartLive
    \/ OnTransaction
    \/ ClearRecentCopy
    \/ Tick
    \/ SweepStart
    \/ SweepStep

Spec == Init /\ [][Next]_vars

\* The engine at rest, for the specifications of the other two components
TraderIdle ==
    /\ TraderInit
    /\ cfg = [mock_trading |-> TRUE, copy_sells |-> TRUE, copy_proportional |-> TRUE,
              trust_trader_pumpfun |-> FALSE]

InitPoller == TraderIdle /\ PollerInit /\ LedgerIdle /\ DetectorIdle
SpecPoller == InitPoller /\ [][PollerNext]_vars

InitLedger == TraderIdle /\ PollerIdle /\ LedgerInit /\ DetectorIdle
SpecLedger == InitLedger /\ [][LedgerNext]_vars

(***************************************************************************)
(* TransactionParser (tx_parser.py): the Swap Detector                     *)
(*                                                                         *)
(* A raw transaction is reduced to what the parser reads: meta.err, the    *)
(* trading programs among the account keys, the accounts with their        *)
(* lamport balances before and after (in units of 0.0001 SOL), and the     *)
(* token-balance entries.  An entry stands for the element of              *)
(* preTokenBalances and of postTokenBalances of one token account.         *)
(***************************************************************************)
MaxEntries == 2
ProgramSets == {{}, {"pump.fun"}, {"jupiter"}, {"raydium"}, {"pump.fun", "jupiter"}}
NotTraded == {"WSOL", "USDC", "USDT"}      \* NATIVE_SOL_MINT, USDC_MINT, USDT_MINT
ParserMints == {"X", "Y", "USDC"}
Accounts == {<<Trader>>, <<"pool">>, <<"pool", Trader>>, <<Trader, "pool">>}
SolBalances == {<<5000, 3000>>, <<5000, 4900>>, <<5000, 5000>>, <<3000, 5000>>}
TokenAmounts == {0, 1000}
Entries == [owner : {Trader, "pool"}, mint : ParserMints,
            pre : TokenAmounts, post : TokenAmounts]
EntryLists == UNION {[1..n -> Entries] : n \in 0..MaxEntries}
RawTxs == UNION {[err : BOOLEAN, programs : ProgramSets, account_keys : {keys},
                  balances : [1..Len(keys) -> SolBalances], token_balances : EntryLists] :
                 keys \in Accounts}

Abs(x) == IF x < 0 THEN 0 - x ELSE x
MaxOf(S) == CHOOSE x \in S : \A y \in S : y <= x
index(seq, x) == CHOOSE i \in 1..Len(seq) : seq[i] = x /\ \A j \in 1..(i - 1) : seq[j] # x

\* the dict built from preTokenBalances / postTokenBalances: a later entry of
\* the same mint replaces an earlier one
token_dict(entries, side, kept) ==
    LET at(m) == {i \in 1..Len(entries) : entries[i].mint = m /\ entries[i] \in kept}
    IN [m \in {mt \in ParserMints : at(mt) # {}} |-> entries[MaxOf(at(m))][side]]

swap_of_unfiltered(tx, mint, token_change, sol_change, dex) ==
    IF ~((token_change > 0 /\ sol_change < 0) \/ (token_change < 0 /\ sol_change > 0))
    THEN NoSwap
    ELSE [swap_type |-> IF token_change > 0 THEN "buy" ELSE "sell", token_mint |-> mint,
          sol_amount |-> Abs(sol_change), token_amount |-> Abs(token_change),
          dex |-> dex, wallet |-> Trader]

swap_of_by_token_sign(tx, mint, token_change, sol_change, dex) ==
    IF sol_change = 0 \/ Abs(sol_change) < min_sol_per_trade
    THEN NoSwap
    ELSE [swap_type |-> IF token_change > 0 THEN "buy" ELSE "sell", token_mint |-> mint,
          sol_amount |-> Abs(sol_change), token_amount |-> Abs(token_change),
          dex |-> dex, wallet |-> Trader]

\* the part the two paths share: the changed mint is `mint`, classify the
\* swap and filter it by its native value
swap_of(tx, mint, token_change, sol_change, dex) ==
    IF ~((token_change > 0 /\ sol_change < 0) \/ (token_change < 0 /\ sol_change > 0))
    THEN NoSwap
    ELSE IF Abs(sol_change) < min_sol_per_trade
    THEN NoSwap
    ELSE [swap_type |-> IF token_change > 0 THEN "buy" ELSE "sell", token_mint |-> mint,
          sol_amount |-> Abs(sol_change), token_amount |-> Abs(token_change),
          dex |-> dex, wallet |-> Trader]

\* `for mint in all_mints: ... break` takes the first changed mint of a set,
\* whose iteration order is not fixed: every changed mint may be the one
first_changed(tx, pre, post, mints, sol_change, dex) ==
    LET change(m) == Get(post, m, 0) - Get(pre, m, 0)
        changed == {m \in mints : change(m) # 0}
    IN IF changed = {} THEN {NoSwap}
       ELSE {swap_of(tx, m, change(m), sol_change, dex) : m \in changed}

parse_pump_fun(tx, wallet) ==
    IF "pump.fun" \notin tx.programs THEN {NoSwap}
    ELSE LET keys == tx.account_keys
             wallet_index == IF wallet \in Range(keys) THEN index(keys, wallet) ELSE 1
             sol_change == tx.balances[wallet_index][2] - tx.balances[wallet_index][1]
             kept == {b \in Entries : b.mint \notin NotTraded}
             pre == token_dict(tx.token_balances, "pre", kept)
             post == token_dict(tx.token_balances, "post", kept)
         IN first_changed(tx, pre, post, DOMAIN pre \cup DOMAIN post, sol_change,
                          "pump.fun")

parse_from_balance_changes(tx, wallet, dex) ==
    LET keys == tx.account_keys
        sol_change == IF wallet \in Range(keys)
                      THEN tx.balances[index(keys, wallet)][2]
                           - tx.balances[index(keys, wallet)][1]
                      ELSE 0
        kept == {b \in Entries : b.owner = wallet}
        pre == token_dict(tx.token_balances, "pre", kept)
        post == token_dict(tx.token_balances, "post", kept)
    IN first_changed(tx, pre, post, (DOMAIN pre \cup DOMAIN post) \ NotTraded,
                     sol_change, dex)

parse_jupiter(tx, wallet) ==
    IF "jupiter" \notin tx.programs THEN {NoSwap}
    ELSE parse_from_balance_changes(tx, wallet, "jupiter")

parse_raydium(tx, wallet) ==
    IF "raydium" \notin tx.programs THEN {NoSwap}
    ELSE parse_from_balance_changes(tx, wallet, "raydium")

\* `swap = path(...); if swap: return swap`, then the next path
or_else(found, next) == (found \ {NoSwap}) \cup (IF NoSwap \in found THEN next ELSE {})

parse_transaction_any(tx, wallet) ==
    or_else(parse_pump_fun(tx, wallet),
    or_else(parse_jupiter(tx, wallet),
    or_else(parse_raydium(tx, wallet),
            parse_from_balance_changes(tx, wallet, "unknown"))))

\* the set of values parse_transaction may return for tx
parse_transaction(tx, wallet) ==
    IF tx.err THEN {NoSwap}
    ELSE or_else(parse_pump_fun(tx, wallet),
         or_else(parse_jupiter(tx, wallet),
         or_else(parse_raydium(tx, wallet),
                 parse_from_balance_changes(tx, wallet, "unknown"))))

DetectorInit ==
    /\ raw \in RawTxs
    /\ handed = "nothing"
    /\ parsed = NoSwap

\* parse_transaction called with the raw transaction
ParseTransaction ==
    /\ handed = "nothing"
    /\ handed' = "parser"
    /\ parsed' \in parse_transaction(raw, Trader)
    /\ UNCHANGED raw
    /\ UNCHANGED <<traderVars, pollerVars, ledgerVars>>

\* _poll_wallet after the body was fetched: the WalletTransaction is built
\* and, when it succeeded, given to CopyTrader._on_transaction, which parses it
HandOver ==
    /\ handed = "nothing"
    /\ LET success == ~raw.err
       IN IF success
          THEN /\ handed' = "handler"
               /\ parsed' \in parse_transaction(raw, Trader)
          ELSE /\ handed' = "dropped"
               /\ UNCHANGED parsed
    /\ UNCHANGED raw
    /\ UNCHANGED <<traderVars, pollerVars, ledgerVars>>

DetectorNext ==
    \/ ParseTransaction
    \/ HandOver

InitDetector == TraderIdle /\ PollerIdle /\ LedgerIdle /\ DetectorInit
SpecDetector == InitDetector /\ [][DetectorNext]_vars

(***************************************************************************)
(* The simulated account (copy_trader.py:1076-1181, 275-314) on its own:   *)
(* simulated buys and sells, each saving the state file, and restarts of   *)
(* the process that read it back.  The first MaxTrades trades are any      *)
(* trades; after them the tracked wallet keeps buying and selling token X  *)
(* until the history is longer than the state file keeps.                  *)
(***************************************************************************)
MaxTrades == 3
MockBuySwaps == {[swap_type |-> "buy", token_mint |-> "X", sol_amount |-> SignalSol,
                  token_amount |-> 10000, dex |-> "raydium", wallet |-> Trader],
                 [swap_type |-> "buy", token_mint |-> "Y", sol_amount |-> 3000,
                  token_amount |-> 10000, dex |-> "raydium", wallet |-> Trader]}
MockSellSwaps == {s \in SellSwaps : s.token_mint \in {"X", "Y"}}
MockSizes == {min_sol_per_trade, 1500}
SteadyBuy == CHOOSE s \in MockBuySwaps : s.token_mint = "X"
SteadySell == CHOOSE s \in MockSellSwaps : s.token_mint = "X" /\ s.token_amount = 10000
trades_so_far == now \div TickSec
any_trade == trades_so_far < MaxTrades
more_trades == trades_so_far <= HistoryKept

MockInit ==
    /\ TraderInit
    /\ cfg = [mock_trading |-> TRUE, copy_sells |-> TRUE, copy_proportional |-> TRUE,
              trust_trader_pumpfun |-> FALSE]

MockTraded(r, note) ==
    /\ mock_balance' = r.balance
    /\ mock_token_positions' = r.tokens
    /\ mock_position_entry_time' = r.entry_time
    /\ mock_position_entry_sol' = r.entry_sol
    /\ mock_trades_history' = r.history
    /\ mock_state_file' = r.file
    /\ last' = note
    /\ UNCHANGED <<cfg, phase, position_manager, trader_sold_cooldown, recent_copies,
                   clear_tasks, trader_balances, token_info_cache, holder_info_cache,
                   stats, sweep>>
    /\ UNCHANGED <<pollerVars, ledgerVars, detectorVars>>

\* _simulate_mock_buy, called with a size the balance covers
MockBuy ==
    /\ more_trades
    /\ \E swap \in MockBuySwaps, trade_sol \in MockSizes :
          /\ any_trade \/ (swap = SteadyBuy /\ trade_sol = min_sol_per_trade
                           /\ "X" \notin OpenMints(mock_token_positions))
          /\ trade_sol <= mock_balance
          /\ MockTraded(simulate_mock_buy(swap, trade_sol),
                        [executed |-> "mock_buy", swap |-> swap, trade_sol |-> trade_sol,
                         balance |-> mock_balance, tokens |-> mock_token_positions])
    /\ now' = now + TickSec

\* _simulate_mock_sell, called with the whole simulated holding of the token
MockSell ==
    /\ more_trades
    /\ \E swap \in MockSellSwaps :
          /\ any_trade \/ swap = SteadySell
          /\ Get(mock_token_positions, swap.token_mint, 0) > 0
          /\ MockTraded(simulate_mock_sell(swap, mock_token_positions[swap.token_mint]),
                        [executed |-> "mock_sell", swap |-> swap, trade_sol |-> 0,
                         balance |-> mock_balance, tokens |-> mock_token_positions])
    /\ now' = now + TickSec

\* a new process: CopyTrader.__init__ reads the state file
Restart ==
    /\ mock_state_file # NoFile
    /\ LET r == load_mock_state(mock_state_file)
       IN MockTraded(r @@ [file |-> mock_state_file],
                     [executed |-> "restart", swap |-> NoSwap, trade_sol |-> 0,
                      balance |-> mock_balance, tokens |-> mock_token_positions])
    /\ UNCHANGED now

MockNext ==
    \/ MockBuy
    \/ MockSell
    \/ Restart

InitMock == MockInit /\ PollerIdle /\ LedgerIdle /\ DetectorIdle
SpecMock == InitMock /\ [][MockNext]_vars

(***************************************************************************)
(* Trade sizing (copy_trader.py:764-840) on its own: the size computed for *)
(* a buy signal from the simulated balance, the signal's native value and  *)
(* the tracked wallet's balance.                                           *)
(***************************************************************************)
SizingBalances == {400, 810, 1110, 1510, 2510, 10510, 20510, 40510}
SizingSignals == {500, 2000, 5000, 20000}
SizingTraderAnswers == {[balance |-> 0], [balance |-> 20000], [balance |-> 100000], NoData}

InitSizing ==
    /\ cfg \in {c \in Configs : c.mock_trading /\ c.copy_sells /\ ~c.trust_trader_pumpfun}
    /\ phase = "created"
    /\ position_manager = "None"
    /\ now = 0
    /\ mock_balance \in SizingBalances
    /\ mock_token_positions \in {EmptyDict, [Y |-> BoughtTokens]}
    /\ mock_position_entry_time = EmptyDict
    /\ mock_position_entry_sol = EmptyDict
    /\ trader_sold_cooldown = EmptyDict
    /\ recent_copies = {}
    /\ clear_tasks = EmptyDict
    /\ trader_balances = EmptyDict
    /\ token_info_cache = EmptyDict
    /\ holder_info_cache = EmptyDict
    /\ stats = [total_detected |-> 0, total_copied |-> 0, total_skipped |-> 0,
                total_failed |-> 0, total_sol_spent |-> 0]
    /\ mock_trades_history = <<>>
    /\ mock_state_file = NoFile
    /\ sweep = [state |-> "off", due |-> 0, rest |-> {}, seen |-> EmptyDict]
    /\ last = NoEvent
    /\ PollerIdle /\ LedgerIdle /\ DetectorIdle

\* copy_trader.py:764-840 for one buy signal: the available balance, the
\* tracked wallet's balance (asked once, 10.0 when the request fails), the size
SizeTrade ==
    /\ last = NoEvent
    /\ \E sol \in SizingSignals, answer \in SizingTraderAnswers :
          LET swap == [swap_type |-> "buy", token_mint |-> "X", sol_amount |-> sol,
                       token_amount |-> 10000, dex |-> "raydium", wallet |-> Trader]
              current_positions == Cardinality(OpenMints(mock_token_positions))
              available == available_sol(mock_balance, current_positions)
              balances == IF cfg.copy_proportional /\ swap.wallet \notin DOMAIN trader_balances
                          THEN Put(trader_balances, swap.wallet,
                                   IF answer = NoData THEN DefaultTraderBalance
                                   ELSE answer.balance)
                          ELSE trader_balances
              trader_total == IF cfg.copy_proportional THEN balances[swap.wallet] ELSE 0
          IN /\ current_positions < max_positions
             /\ trader_balances' = balances
             /\ last' = [executed |-> "sized", swap |-> swap, available |-> available,
                         trader_total |-> trader_total,
                         trade_sol |-> trade_size(available, swap, trader_total),
                         final |-> ensure_minimum(trade_size(available, swap, trader_total),
                                                  available)]
    /\ UNCHANGED <<cfg, phase, position_manager, now, mock_balance, mock_token_positions,
                   mock_position_entry_time, mock_position_entry_sol,
                   trader_sold_cooldown, recent_copies, clear_tasks, token_info_cache,
                   holder_info_cache, stats, mock_trades_history, mock_state_file, sweep>>
    /\ UNCHANGED <<pollerVars, ledgerVars, detectorVars>>

SpecSizing == InitSizing /\ [][SizeTrade]_vars

(***************************************************************************)
(* Shutdown (main_copy.py:120-151): the bot starts the copy trader, a      *)
(* SIGINT or SIGTERM runs _handle_shutdown, and cleanup runs once          *)
(* CopyTrader.start has returned or raised.  The tracked wallets sign      *)
(* nothing new in these runs.                                              *)
(***************************************************************************)
ShutdownInit ==
    /\ TraderInit
    /\ cfg.copy_sells /\ cfg.copy_proportional /\ ~cfg.trust_trader_pumpfun
    /\ PollerInit /\ LedgerIdle /\ DetectorIdle

\* CopyTrader.start, line 189: await self.monitor.start()
StartMonitor ==
    /\ phase = "running"
    /\ MonitorStart

\* _handle_shutdown: CopyTradingBot.running and CopyTrader.running are cleared
HandleShutdown ==
    /\ phase = "running"
    /\ phase' = "stopping"
    /\ UNCHANGED <<cfg, position_manager, now, mock_balance, mock_token_positions,
                   mock_position_entry_time, mock_position_entry_sol,
                   trader_sold_cooldown, recent_copies, clear_tasks, trader_balances,
                   token_info_cache, holder_info_cache, stats, mock_trades_history,
                   mock_state_file, sweep, last>>
    /\ UNCHANGED <<pollerVars, ledgerVars, detectorVars>>

\* run(), lines 138-142: `finally: await self.cleanup()` once start() is
\* over; CopyTrader.stop saves the simulated state and stops the monitor
Cleanup ==
    /\ phase = "crashed" \/ (phase \in {"running", "stopping"} /\ poll.state = "returned")
    /\ phase' = "stopped"
    /\ mock_state_file' = IF cfg.mock_trading
                          THEN saved_state(mock_balance, mock_token_positions,
                                           mock_position_entry_time,
                                           mock_position_entry_sol, mock_trades_history)
                          ELSE mock_state_file
    /\ poll' = IF poll.state = "created" THEN poll ELSE [poll EXCEPT !.running = FALSE]
    /\ UNCHANGED <<cfg, position_manager, now, mock_balance, mock_token_positions,
                   mock_position_entry_time, mock_position_entry_sol,
                   trader_sold_cooldown, recent_copies, clear_tasks, trader_balances,
                   token_info_cache, holder_info_cache, stats, mock_trades_history,
                   sweep, last>>
    /\ UNCHANGED <<chain, seen_signatures, target_wallets, fetched, delivered>>
    /\ UNCHANGED <<ledgerVars, detectorVars>>

ShutdownNext ==
    \/ StartMock
    \/ StartLive
    \/ StartMonitor
    \/ SeedWallet
    \/ PollRound
    \/ PollWallet
    \/ Visit
    \/ WalletDone
    \/ Tick
    \/ SweepStart
    \/ HandleShutdown
    \/ Cleanup

SpecShutdown == ShutdownInit /\ [][ShutdownNext]_vars

(***************************************************************************)
(* The recent-copy cooldown on its own: the signals of one token (X) in    *)
(* simulation mode with sells copied, long enough for a buy, the sale of   *)
(* the position, a further sell and a second buy.                          *)
(***************************************************************************)
MaxRecentEvents == 4

InitRecent ==
    /\ TraderInit
    /\ cfg.mock_trading /\ cfg.copy_sells
    /\ ~cfg.copy_proportional /\ ~cfg.trust_trader_pumpfun
    /\ PollerIdle /\ LedgerIdle /\ DetectorIdle

\* _on_transaction for a swap of X
OnTransactionX ==
    /\ phase = "running" /\ position_manager = "None"
    /\ stats.total_detected < MaxRecentEvents
    /\ \E swap \in {w \in Swaps : w.token_mint = "X"} : \E ext \in RelevantExt(swap) :
          LET h == on_transaction(swap, ext) IN
          /\ SetEngine(h.engine)
          /\ last' = h.event
    /\ UNCHANGED <<cfg, phase, position_manager, now, sweep>>
    /\ UNCHANGED <<pollerVars, ledgerVars, detectorVars>>

RecentNext ==
    \/ StartMock
    \/ OnTransactionX
    \/ ClearRecentCopy
    \/ Tick

SpecRecent == InitRecent /\ [][RecentNext]_vars

(***************************************************************************)
(* WalletMonitor with its wallet list edited: add_wallet and remove_wallet *)
(* are called while the poll loop sleeps between two rounds, and one       *)
(* wallet at least stays tracked.                                          *)
(***************************************************************************)
MaxWalletCalls == 2     \* add_wallet and remove_wallet calls in a run

\* add_wallet: the wallet is appended with an empty seen set
AddWallet ==
    /\ poll.state = "sleeping" /\ poll.calls < MaxWalletCalls
    /\ \E wallet \in Range(Wallets) \ Range(target_wallets) :
          /\ target_wallets' = Append(target_wallets, wallet)
          /\ seen_signatures' = Put(seen_signatures, wallet, {})
    /\ poll' = [poll EXCEPT !.calls = @ + 1]
    /\ UNCHANGED <<chain, fetched, delivered>>
    /\ UNCHANGED <<traderVars, ledgerVars, detectorVars>>

\* remove_wallet: the wallet leaves the list and its seen set is deleted
RemoveWallet ==
    /\ poll.state = "sleeping" /\ poll.calls < MaxWalletCalls
    /\ Len(target_wallets) > 1
    /\ \E i \in 1..Len(target_wallets) :
          /\ target_wallets' = SubSeq(target_wallets, 1, i - 1)
                               \o SubSeq(target_wallets, i + 1, Len(target_wallets))
          /\ seen_signatures' = Pop(seen_signatures, target_wallets[i])
    /\ poll' = [poll EXCEPT !.calls = @ + 1]
    /\ UNCHANGED <<chain, fetched, delivered>>
    /\ UNCHANGED <<traderVars, ledgerVars, detectorVars>>

WalletsNext ==
    \/ Publish
    \/ MonitorStart
    \/ SeedWallet
    \/ PollRound
    \/ PollWallet
    \/ Visit
    \/ WalletDone
    \/ AddWallet
    \/ RemoveWallet

SpecWallets == InitPoller /\ [][WalletsNext]_vars

(***************************************************************************)
(* The token-health look-up on its own: _get_token_info is called for a    *)
(* mint at some time, with DexScreener answering or not.                   *)
(***************************************************************************)
MaxLookups == 4

InitLookup ==
    /\ TraderInit
    /\ cfg.mock_trading /\ cfg.copy_sells
    /\ ~cfg.copy_proportional /\ ~cfg.trust_trader_pumpfun
    /\ PollerIdle /\ LedgerIdle /\ DetectorIdle

\* one call of _get_token_info; `last` keeps what it was called with, the
\* cache entry before and after, and what it returned
Lookup ==
    /\ phase = "running"
    /\ last.seq < MaxLookups
    /\ \E mint \in {"X", "Y"} : \E answer \in {DexScreener(mint), NoData} :
          LET t == get_token_info(token_info_cache, mint, answer) IN
          /\ token_info_cache' = t.cache
          /\ last' = [executed |-> "lookup", seq |-> last.seq + 1, mint |-> mint,
                      at |-> now, answer |-> answer, info |-> t.info,
                      prior |-> Get(token_info_cache, mint, NoData),
                      stored |-> Get(t.cache, mint, NoData)]
    /\ UNCHANGED <<cfg, phase, position_manager, now, mock_balance, mock_token_positions,
                   mock_position_entry_time, mock_position_entry_sol,
                   trader_sold_cooldown, recent_copies, clear_tasks, trader_balances,
                   holder_info_cache, stats, mock_trades_history, mock_state_file, sweep>>
    /\ UNCHANGED <<pollerVars, ledgerVars, detectorVars>>

LookupNext ==
    \/ StartMock
    \/ Tick
    \/ Lookup

SpecLookup == InitLookup /\ [][LookupNext]_vars

(***************************************************************************)
(* Properties                                                              *)
(***************************************************************************)
LastMint == last.swap.token_mint
OpenCount == Cardinality(OpenMints(mock_token_positions))
Untouched(parts) == last.changed \cap parts = {}

C2_OpenPositionsBounded ==
    /\ OpenCount <= max_positions
    /\ Cardinality(DOMAIN positions) <= pm_settings.max_positions

\* a buy has filled the last slot
C2_Witness ==
    /\ last.executed = "buy"
    /\ last.open = max_positions - 1
    /\ OpenCount = max_positions

\* C3: with max_positions positions open, a BUY for a token that is already
\* held is not rejected for lack of a slot.
C3_HeldBuyKeepsSlot ==
    (is_buy(last.swap) /\ last.held /\ last.open = max_positions)
    => last.error # "max_positions_reached"

NewBuyAtMax == is_buy(last.swap) /\ ~last.held /\ last.open = max_positions

\* the reasons of the filters that run before the max-positions check
EarlierReasons ==
    {"sell_cooldown_active", "recently_copied", "token_unknown", "token_too_new",
     "market_cap_too_low", "liquidity_too_low", "volume_too_low", "already_pumped",
     "low_activity", "top10_holders_too_high", "dev_holdings_too_high",
     "too_few_holders"}

C5_AbandonFirst ==
    (exit_log.kind = "evaluated" /\ exit_log.value < pm_settings.rug_abandon_sol)
    => exit_log.reason = "abandoned"

\* abandoned although take profit was due as well
C5_Witness ==
    /\ exit_log.kind = "evaluated"
    /\ exit_log.reason = "abandoned"
    /\ "take_profit" \in exit_log.due

NotHeldSell == is_sell(last.swap) /\ ~last.held
CooldownRecorded ==
    /\ LastMint \in DOMAIN trader_sold_cooldown
    /\ trader_sold_cooldown[LastMint] = last.at
BuyInCooldown ==
    /\ is_buy(last.swap)
    /\ last.cooldown >= 0
    /\ last.at - last.cooldown < sell_cooldown_seconds
CooldownRejected ==
    /\ last.outcome = "skipped"
    /\ last.error = "sell_cooldown_active"
    /\ Untouched({"balance", "positions", "tokens", "recent_copies"})

BuyAfterCooldown ==
    /\ is_buy(last.swap)
    /\ last.cooldown >= 0
    /\ last.at - last.cooldown >= sell_cooldown_seconds

\* C7: a BUY handled 60 s or more after the cooldown timestamp of its token
\* is not rejected by the sell-cooldown filter, and the entry is removed.
C7_CooldownExpires ==
    BuyAfterCooldown
    => /\ last.error # "sell_cooldown_active"
       /\ LastMint \notin DOMAIN trader_sold_cooldown

\* the buy after the expired cooldown went through
C7_Witness == BuyAfterCooldown /\ last.executed = "buy"

\* C8: a SELL for a token that is held closes the position at once, whatever
\* the filters say.
C8_HeldSellCloses ==
    (is_sell(last.swap) /\ last.held)
    => /\ last.executed = "sell"
       /\ "positions" \in last.changed

\* C9: an executed buy leaves tokens of the mint, counts as copied and is
\* reported as a success.
C9_BuyReportedSuccess ==
    last.executed = "buy"
    => /\ "tokens" \in last.changed
       /\ last.outcome = "copied"
       /\ "total_copied" \in last.changed

\* C10: a BUY counted as failed has changed neither balance, positions,
\* recent copies nor the spent total.
C10_FailedBuyUntouched ==
    (is_buy(last.swap) /\ last.outcome = "failed")
    => Untouched({"balance", "positions", "tokens", "recent_copies", "total_sol_spent"})

\* C11: a second add_position for a mint that is still open leaves one
\* position whose entry amount and token amount are the sums of the two.
C11_PositionAccumulates ==
    (exit_log.kind = "added" /\ exit_log.reason = "increase")
    => /\ exit_log.token_mint \in DOMAIN positions
       /\ positions[exit_log.token_mint].entry_sol
             = exit_log.before.entry_sol + exit_log.value
       /\ positions[exit_log.token_mint].token_amount
             = exit_log.before.token_amount + BoughtTokens

\* what the wallet's own token accounts and its lamport balance show
wallet_change(tx, m) ==
    LET kept == {b \in Entries : b.owner = Trader}
    IN Get(token_dict(tx.token_balances, "post", kept), m, 0)
       - Get(token_dict(tx.token_balances, "pre", kept), m, 0)
wallet_changes(tx) == {m \in ParserMints \ NotTraded : wallet_change(tx, m) # 0}
\* the lamport change the detection reads: the wallet's, or the fee payer's
\* on the pump.fun path when the wallet is not among the account keys
native_delta(tx) ==
    LET keys == tx.account_keys
        i == IF Trader \in Range(keys) THEN index(keys, Trader)
             ELSE IF "pump.fun" \in tx.programs THEN 1 ELSE 0
    IN IF i = 0 THEN 0 ELSE tx.balances[i][2] - tx.balances[i][1]

\* C12: a transaction whose meta.err is not null gives no swap event, and the
\* poller does not give it to the handler.
C12_FailedNeverDetected ==
    (handed # "nothing" /\ raw.err) => (parsed = NoSwap /\ handed # "handler")
C12_Witness ==
    /\ handed = "parser" /\ raw.err
    /\ parse_transaction([raw EXCEPT !.err = FALSE], Trader) # {NoSwap}

\* C13: a transaction in which two or more distinct tokens, neither native
\* nor stable, change balance for the wallet gives no swap event.
C13_MultiTokenRejected ==
    (handed # "nothing" /\ Cardinality(wallet_changes(raw)) >= 2) => parsed = NoSwap

\* C14: every emitted event has a native amount that is positive and not
\* below min_sol_value, and a native change below the minimum gives no event,
\* whichever path looked at the transaction.
C14_DustFiltered ==
    handed # "nothing"
    => /\ parsed # NoSwap => (parsed.sol_amount > 0 /\ parsed.sol_amount >= min_sol_per_trade)
       /\ Abs(native_delta(raw)) < min_sol_per_trade => parsed = NoSwap
C14_Witness ==
    /\ handed = "handler" /\ parsed = NoSwap
    /\ raw.programs = {"pump.fun", "jupiter"}
    /\ native_delta(raw) < 0 /\ Abs(native_delta(raw)) < min_sol_per_trade
    /\ \E m \in wallet_changes(raw) : wallet_change(raw, m) > 0

\* C15: a simulated buy of size s on a signal of n native for t tokens
\* (n > 0, t > 0) credits floor((s / n) * t) tokens to the token and takes
\* exactly s from the simulated balance; no other token's holding changes.
C15_MockBuyCredits ==
    (last.executed = "mock_buy" /\ last.swap.sol_amount > 0 /\ last.swap.token_amount > 0)
    => LET mint == last.swap.token_mint
       IN /\ mock_token_positions[mint]
                = Get(last.tokens, mint, 0)
                  + (last.trade_sol * last.swap.token_amount) \div last.swap.sol_amount
          /\ mock_balance = last.balance - last.trade_sol
          /\ \A m \in (DOMAIN mock_token_positions \cup DOMAIN last.tokens) \ {mint} :
                /\ m \in DOMAIN mock_token_positions /\ m \in DOMAIN last.tokens
                /\ mock_token_positions[m] = last.tokens[m]
C15_Witness ==
    /\ last.executed = "mock_buy" /\ last.swap.token_mint = "Y"
    /\ (last.trade_sol * last.swap.token_amount) % last.swap.sol_amount # 0
    /\ Get(last.tokens, "Y", 0) > 0 /\ Get(last.tokens, "X", 0) > 0

\* what a reload of the state file gives, next to what the process holds
reloaded == load_mock_state(mock_state_file)
same_but_history ==
    /\ reloaded.balance = mock_balance
    /\ reloaded.starting_balance = mock_balance_sol
    /\ reloaded.tokens = mock_token_positions
    /\ OpenMints(reloaded.tokens) = OpenMints(mock_token_positions)
    /\ reloaded.entry_time = mock_position_entry_time
    /\ reloaded.entry_sol = mock_position_entry_sol

\* C16 (as stated): after any sequence of simulated trades, of any length,
\* saving and reloading gives the same balance, starting balance, open
\* positions with entry times and entry amounts, and trade history.
C16_RoundTripWholeHistory ==
    mock_state_file # NoFile
    => (same_but_history /\ reloaded.history = mock_trades_history)

\* C16 (amended): the same, with the trade history reproduced up to its last
\* HistoryKept entries.
C16_RoundTripKeptHistory ==
    mock_state_file # NoFile
    => /\ same_but_history
       /\ reloaded.history
             = SubSeq(mock_trades_history,
                      Max2(1, Len(mock_trades_history) - HistoryKept + 1),
                      Len(mock_trades_history))
C16_Witness ==
    /\ mock_state_file # NoFile
    /\ Len(mock_trades_history) > HistoryKept
    /\ OpenMints(mock_token_positions) # {}
    /\ mock_position_entry_time # EmptyDict

\* C17: with proportional sizing the size is
\*   min(available * f, available * 0.5, max_sol_per_trade),
\*   f = max(signal / trader balance, max(min_sol_per_trade / available, 0.15)),
\* rounded to four decimals; a signal of 5% of a trader balance of 10 SOL with
\* 1.0 SOL available gives 0.15 SOL.
C17_ProportionalSize ==
    (last.executed = "sized" /\ cfg.copy_proportional
        /\ last.available > 0 /\ last.trader_total > 0)
    => LET a == last.available
           matched == RoundDiv(a * last.swap.sol_amount, last.trader_total)
           least == Max2(min_sol_per_trade, RoundDiv(15 * a, 100))
       IN /\ last.trade_sol = Min2(Max2(matched, least),
                                   Min2(RoundDiv(a, 2), max_sol_per_trade))
          /\ (a = 10000 /\ last.swap.sol_amount = 5000 /\ last.trader_total = 100000)
                => last.trade_sol = 1500
C17_Witness ==
    /\ last.executed = "sized" /\ cfg.copy_proportional
    /\ last.available = 10000 /\ last.swap.sol_amount = 5000
    /\ last.trader_total = 100000 /\ last.trade_sol = 1500

\* C18: a transaction that was on a tracked wallet's history before the
\* poller started (s0) is never fetched and never given to the handler.
C18_OldNeverFetched ==
    \A w \in Range(Wallets) : fetched[<<w, "s0">>] = 0 /\ delivered[<<w, "s0">>] = 0

\* C19: a signature that appeared after the start is fetched and passed on
\* once, also when its first body fetch returns nothing or raises.  A
\* signature in seen_signatures is skipped by every later poll, so the claim
\* needs the signature of such a fetch to stay out of seen_signatures.
C19_FailedFetchRetried ==
    (poll.note.n > 0 /\ poll.note.kind \in {"none", "raise"})
    => poll.note.sig \notin seen_signatures[poll.note.wallet]

\* C20: an exception of the handler or of polling one wallet does not stop
\* the loop: after a handler exception the rest of the wallet's list is
\* visited, after a polling exception the next wallet is polled in the same
\* pass, and after the last wallet the loop sleeps until its next round.
C20_LoopSurvives ==
    [][LET raised_in_visit == poll'.note.n # poll.note.n /\ poll'.note.kind = "raise"
           raised_in_list == poll.state = "polling" /\ poll'.state # "visiting"
                             /\ poll' # poll
           handler_raised == poll'.note.n # poll.note.n
                             /\ poll'.note.kind = "handler_error"
       IN /\ handler_raised
             => (poll'.state = "visiting" /\ poll'.i = poll.i
                 /\ poll'.sigs = Tail(poll.sigs))
          /\ (raised_in_visit \/ raised_in_list)
             => IF poll.i < Len(target_wallets)
                THEN poll'.state = "polling" /\ poll'.i = poll.i + 1
                ELSE poll'.state = "sleeping" /\ poll'.round = poll.round
                     /\ (poll.round < MaxPolls => ENABLED PollRound)']_vars
C20_Witness ==
    /\ poll.note.kind = "raise" /\ poll.note.wallet = "W1"
    /\ poll.state = "visiting" /\ poll.i = 2 /\ poll.sigs # <<>>

\* C21: a sell of an open position that failed was retried at once: the call
\* of _sell_position that reports the failure made more than one attempt.
C21_FailedSellRetried ==
    (exit_log.kind \in {"exit", "trigger_sell"} /\ exit_log.result = "sell_failed")
    => exit_log.attempts > 1

\* the sells the manager still has in hand: the exits collected by the running
\* check and the calls of _sell_position that wait for _execute_sell
awaiting_sale ==
    {d[1] : d \in monitor.to_sell}
    \cup {monitor.sales[c].token_mint : c \in DOMAIN monitor.sales}

\* C22: a sell that failed is not dropped while its position is open: it is
\* kept for a later attempt.
C22_FailedSellKept ==
    (/\ exit_log.kind \in {"exit", "trigger_sell"}
     /\ exit_log.result = "sell_failed"
     /\ exit_log.token_mint \in DOMAIN positions)
    => exit_log.token_mint \in awaiting_sale

\* C23: after the stop signal the wallet poll loop ends with its current
\* iteration: it starts no further round of polling.
C23_PollLoopHalts ==
    [][phase = "stopping" => ~(poll.state = "sleeping" /\ poll'.state = "polling")]_vars

\* C24: in simulation mode the persisted state names the same open
\* positions as the table, whenever a loop can look at the table.
C24_TableSaved ==
    (cfg.mock_trading /\ phase = "running" /\ mock_state_file # NoFile)
    => OpenMints(mock_state_file.positions) = OpenMints(mock_token_positions)

\* C25: the exit evaluation returns the first reason that matches in the
\* order abandon, take-profit, time-limit, trailing-stop, and none iff no
\* condition holds; a trigger with threshold 0 never fires, and the trailing
\* stop fires only above the entry amount and at a drop of at least the
\* threshold from the peak.
C25_FirstMatchingReason ==
    LET e == exit_log
        abandon == e.value < pm_settings.rug_abandon_sol
    IN e.kind = "evaluated" =>
          /\ e.reason = IF abandon THEN "abandoned"
                        ELSE IF "take_profit" \in e.due THEN "take_profit"
                        ELSE IF "time_limit" \in e.due THEN "time_limit"
                        ELSE IF "trailing_stop" \in e.due THEN "stop_loss"
                        ELSE "none"
          /\ (e.reason = "none") <=> (~abandon /\ e.due = {})
          /\ e.reason = "take_profit" => pm_settings.take_profit_pct > 0
          /\ e.reason = "time_limit" => pm_settings.time_limit_minutes > 0
          /\ e.reason = "stop_loss" =>
                /\ pm_settings.trailing_stop_pct > 0
                /\ e.peak > e.entry
                /\ (e.peak - e.value) * 100 >= pm_settings.trailing_stop_pct * e.peak

C25_Witness ==
    /\ exit_log.kind = "evaluated"
    /\ exit_log.reason = "stop_loss"
    /\ pm_settings.time_limit_minutes > 0
    /\ "time_limit" \notin exit_log.due

\* C26: applying an abandon decision to an open position removes it, adds
\* its entry amount to the loss total and one to the abandoned counter,
\* leaves the sell counter and the profit total alone, and submits no sell.
C26_AbandonBooksLoss ==
    [][\A due \in monitor.to_sell \ monitor'.to_sell :
          (due[2] = "abandoned" /\ due[1] \in DOMAIN positions) =>
             /\ due[1] \notin DOMAIN positions'
             /\ pm_stats'.total_loss_sol
                   = pm_stats.total_loss_sol + positions[due[1]].entry_sol
             /\ pm_stats'.total_abandoned = pm_stats.total_abandoned + 1
             /\ pm_stats'.total_sells = pm_stats.total_sells
             /\ pm_stats'.total_profit_sol = pm_stats.total_profit_sol
             /\ monitor'.sales = monitor.sales
             /\ exit_log'.result = "abandoned" /\ exit_log'.attempts = 0]_vars

C26_Witness ==
    /\ exit_log.kind = "exit" /\ exit_log.result = "abandoned"
    /\ exit_log.token_mint \notin DOMAIN positions
    /\ pm_stats.total_abandoned > 0 /\ pm_stats.total_loss_sol > 0

\* C27: a revaluation whose quote failed (no response, or a response without
\* an output amount) leaves the position's current and peak value as they
\* were.
C27_FailedQuoteKeepsValue ==
    (exit_log.kind = "evaluated" /\ exit_log.quote # "ok")
    => (exit_log.value = exit_log.before.value /\ exit_log.peak = exit_log.before.peak)

\* C28: a position is closed at most once: no Position object has more than
\* one sale booked in the sell counter and the profit and loss totals.
C28_ClosedAtMostOnce ==
    \A sig \in DOMAIN monitor.closed : monitor.closed[sig] <= 1

\* C29: a sale or abandon the exit evaluation carries out closes the
\* Position object the decision was made for.
C29_DecisionAppliedToSamePosition ==
    (exit_log.kind = "exit" /\ exit_log.result \in {"sold", "abandoned"})
    => exit_log.sold = exit_log.decided

\* C30: tokens of a mint bought while the health sweep was waiting for its
\* look-up of that mint, after the sweep had read the active positions, are
\* still held when the sweep has dealt with the mint.
C30_SweepKeepsNewTokens ==
    [][\A m \in sweep.rest \ sweep'.rest :
          (token_info_cache' # token_info_cache /\ mock_token_positions[m] > sweep.seen[m])
          => mock_token_positions'[m] >= mock_token_positions[m] - sweep.seen[m]]_vars

\* the reasons of the token-health thresholds (with the unknown-token case)
HealthReasons ==
    {"token_unknown", "token_too_new", "market_cap_too_low", "liquidity_too_low",
     "volume_too_low", "already_pumped", "low_activity"}

\* C31: a BUY is rejected with the reason of the first failing filter in the
\* sequence sell cooldown, position slot, native-value floor, recent copy,
\* token health, holder distribution, and no later filter is evaluated: a
\* BUY rejected by one of the first four makes no health or holder look-up,
\* one rejected by token health makes no holder look-up.
C31_FirstFailingFilter ==
    [][(last'.seq # last.seq /\ is_buy(last'.swap)) =>
          LET swap == last'.swap
              mint == swap.token_mint
              cooldown == /\ mint \in DOMAIN trader_sold_cooldown
                          /\ now - trader_sold_cooldown[mint] < sell_cooldown_seconds
              no_slot == /\ Get(mock_token_positions, mint, 0) = 0
                         /\ Cardinality(OpenMints(mock_token_positions)) >= max_positions
              floor == swap.sol_amount < min_sol_per_trade
              recent == mint \in recent_copies
              first == IF cooldown THEN "sell_cooldown_active"
                       ELSE IF no_slot THEN "max_positions_reached"
                       ELSE IF floor THEN "below_min_sol"
                       ELSE IF recent THEN "recently_copied"
                       ELSE "none"
              no_lookup == /\ token_info_cache' = token_info_cache
                           /\ holder_info_cache' = holder_info_cache
          IN /\ first # "none" => (last'.error = first /\ no_lookup)
             /\ last'.error \in HealthReasons => holder_info_cache' = holder_info_cache]_vars

\* a token-health threshold that the data of a token misses
misses_threshold(info) ==
    \/ min_token_age_minutes > 0 /\ info.age < min_token_age_minutes * 60
    \/ min_market_cap_usd > 0 /\ info.market_cap < min_market_cap_usd
    \/ min_liquidity_usd > 0 /\ info.liquidity < min_liquidity_usd
    \/ min_volume_24h_usd > 0 /\ info.volume_24h < min_volume_24h_usd
    \/ max_price_change_1h_pct > 0 /\ info.price_change_1h > max_price_change_1h_pct
    \/ min_txns_1h > 0 /\ info.txns_1h < min_txns_1h

\* C32: a BUY on a venue other than pump.fun that reaches the token-health
\* thresholds with data that misses one of them is rejected and nothing is
\* bought, with trust mode enabled or not.
C32_OtherVenuesFiltered ==
    [][(/\ last'.seq # last.seq
        /\ is_buy(last'.swap)
        /\ last'.swap.dex # "pump.fun"
        /\ last'.outcome # "skipped")
       => LET info == get_token_info(token_info_cache', last'.swap.token_mint,
                                     NoData).info
          IN (info # ZeroInfo /\ misses_threshold(info)) => last'.executed = "none"]_vars

\* the reasons of the holder-distribution thresholds
HolderReasons == {"top10_holders_too_high", "dev_holdings_too_high", "too_few_holders"}

\* C33: a BUY rejected by an eligibility filter, the token-health and holder
\* thresholds included, is counted once as skipped and neither as failed nor
\* as copied.
C33_RejectionCountedSkipped ==
    (/\ is_buy(last.swap)
     /\ last.error \in {"sell_cooldown_active", "max_positions_reached", "below_min_sol",
                        "recently_copied"} \cup HealthReasons \cup HolderReasons)
    => /\ last.outcome = "skipped"
       /\ "total_skipped" \in last.changed
       /\ Untouched({"total_failed", "total_copied"})

\* C34: the size of an accepted buy is at most the available balance,
\* max(0, balance - (fee_reserve + exit_fee_reserve * (1 + open positions))),
\* in fixed and proportional mode and after the rise to the minimum, so the
\* balance after the buy covers the reserve for the positions then open.
C34_SizeWithinAvailable ==
    (last.executed = "sized" /\ last.final.error = "ok")
    => LET open == Cardinality(OpenMints(mock_token_positions)) IN
       /\ last.available
             = Max2(0, mock_balance - (fee_reserve + exit_fee_reserve * (1 + open)))
       /\ last.final.trade_sol <= last.available
       /\ mock_balance - last.final.trade_sol
             >= fee_reserve + exit_fee_reserve * (1 + open)

C34_Witness ==
    /\ last.executed = "sized" /\ last.final.error = "ok"
    /\ last.final.trade_sol > last.trade_sol
    /\ mock_token_positions # EmptyDict

\* C35: a computed size below the minimum is raised to exactly the minimum
\* when the available balance is at least the minimum, and the buy is
\* rejected as insufficient balance only when the available balance is below
\* the minimum.
C35_RaisedToMinimum ==
    last.executed = "sized" =>
       /\ (last.trade_sol < min_sol_per_trade /\ last.available >= min_sol_per_trade)
             => (last.final.error = "ok" /\ last.final.trade_sol = min_sol_per_trade)
       /\ last.final.error = "insufficient_balance"
             <=> (last.trade_sol < min_sol_per_trade
                  /\ last.available < min_sol_per_trade)
       /\ last.trade_sol >= min_sol_per_trade => last.final.trade_sol = last.trade_sol

C35_Witness ==
    /\ last.executed = "sized"
    /\ last.trade_sol < min_sol_per_trade /\ last.available >= min_sol_per_trade
    /\ last.final.trade_sol = min_sol_per_trade

\* a BUY of a mint is handled less than 30 s after the last executed buy of it
BuySoonAfterBuy ==
    /\ last'.seq # last.seq
    /\ is_buy(last'.swap)
    /\ last'.swap.token_mint \in DOMAIN clear_tasks
    /\ now < clear_tasks[last'.swap.token_mint]

\* C36 as stated: every BUY of X handled within 30 s after an executed buy
\* of X is rejected as recently copied.
C36_AlwaysRecentlyCopied ==
    [][BuySoonAfterBuy => last'.error = "recently_copied"]_vars

\* C36 (amended): a BUY of X handled within 30 s after an executed buy of X
\* is skipped, as recently copied unless the sell cooldown rejects it first;
\* an executed buy puts X in the recent-copy set with its removal due 30 s
\* later, the removal is not made earlier, a BUY of a token outside the set
\* is not rejected for that reason, and no SELL ever is.
C36_RecentCopyCooldown ==
    [][/\ BuySoonAfterBuy =>
             /\ last'.outcome = "skipped" /\ last'.executed = "none"
             /\ last'.error \in {"recently_copied", "sell_cooldown_active"}
       /\ (last'.seq # last.seq /\ last'.swap # NoSwap) =>
             LET mint == last'.swap.token_mint IN
             /\ (is_buy(last'.swap) /\ mint \notin recent_copies)
                   => last'.error # "recently_copied"
             /\ is_sell(last'.swap) => last'.error # "recently_copied"
             /\ last'.executed = "buy"
                   => (mint \in recent_copies'
                       /\ clear_tasks'[mint] = now + RecentCopyDelay)
       /\ \A mint \in recent_copies \ recent_copies' : now >= clear_tasks[mint]
       /\ recent_copies' = DOMAIN clear_tasks']_vars

C36_Witness ==
    /\ is_buy(last.swap) /\ last.error = "recently_copied"
    /\ last.at > 0

\* the change of a mint over all token-balance entries, which is what the
\* pump.fun path reads
any_change(tx, m) ==
    LET kept == {b \in Entries : b.mint \notin NotTraded}
    IN Get(token_dict(tx.token_balances, "post", kept), m, 0)
       - Get(token_dict(tx.token_balances, "pre", kept), m, 0)

\* the token deltas a detection path may read for a mint
token_deltas(tx, m) ==
    {wallet_change(tx, m)}
    \cup (IF "pump.fun" \in tx.programs THEN {any_change(tx, m)} ELSE {})

\* a successful transaction in which one token changes for the wallet, seen
\* alike by every path
OneTokenChanged(m) ==
    /\ handed # "nothing" /\ ~raw.err
    /\ wallet_changes(raw) = {m}
    /\ Trader \in Range(raw.account_keys)
    /\ \A x \in ParserMints \ NotTraded : any_change(raw, x) = wallet_change(raw, x)

\* C37 as stated: BUY iff token delta > 0 and native delta < 0, SELL iff
\* token delta < 0 and native delta > 0, no event otherwise.
C37_SignsDecide ==
    \A m \in ParserMints : OneTokenChanged(m) =>
        LET d == wallet_change(raw, m)
            n == native_delta(raw)
        IN /\ (parsed # NoSwap /\ parsed.swap_type = "buy") <=> (d > 0 /\ n < 0)
           /\ (parsed # NoSwap /\ parsed.swap_type = "sell") <=> (d < 0 /\ n > 0)

\* C37 (amended): with a native delta of at least the minimum in absolute
\* value the signs decide: BUY iff token delta > 0 and native delta < 0,
\* SELL iff token delta < 0 and native delta > 0; every other combination
\* and every smaller native delta give no event; an event carries the
\* absolute values of the deltas its path read.
C37_SignsDecideAboveMinimum ==
    /\ \A m \in ParserMints : OneTokenChanged(m) =>
          LET d == wallet_change(raw, m)
              n == native_delta(raw)
              enough == Abs(n) >= min_sol_per_trade
          IN /\ (parsed # NoSwap /\ parsed.swap_type = "buy")
                   <=> (d > 0 /\ n < 0 /\ enough)
             /\ (parsed # NoSwap /\ parsed.swap_type = "sell")
                   <=> (d < 0 /\ n > 0 /\ enough)
    /\ (handed # "nothing" /\ parsed # NoSwap) =>
          \E d \in token_deltas(raw, parsed.token_mint) :
             LET n == native_delta(raw) IN
             /\ parsed.token_amount = Abs(d) /\ parsed.sol_amount = Abs(n)
             /\ parsed.swap_type = "buy" => (d > 0 /\ n < 0)
             /\ parsed.swap_type = "sell" => (d < 0 /\ n > 0)

C37_Witness ==
    /\ OneTokenChanged("X") /\ parsed # NoSwap /\ parsed.swap_type = "sell"
    /\ "pump.fun" \in raw.programs

\* C38: the seen set of a tracked wallet never loses an identifier: every
\* signature the poll loop has processed for a wallet that is tracked is in
\* the wallet's seen set, whatever polls, failures and add_wallet or
\* remove_wallet calls came after.
C38_SeenNeverShrinks ==
    \A w \in Range(target_wallets) : \A s \in Sigs :
        fetched[<<w, s>>] > 0 => s \in seen_signatures[w]

\* C39: a token-health look-up returns the cached snapshot iff it was
\* captured less than 60 s ago, with the age raised by the time it spent in
\* the cache and nothing else changed; otherwise it asks again, and a failed
\* request returns the no-data value, not the expired snapshot, and stores
\* nothing.
C39_CachedWithinTtl ==
    last.executed = "lookup" =>
       LET fresh == /\ last.prior # NoData
                    /\ last.at - last.prior.time < TokenInfoTtl
       IN /\ fresh => /\ last.info = [last.prior.info EXCEPT
                                         !.age = @ + (last.at - last.prior.time)]
                      /\ last.stored = last.prior
          /\ (~fresh /\ last.answer = NoData)
                => (last.info = ZeroInfo /\ last.stored = last.prior)
          /\ (~fresh /\ last.answer # NoData)
                => /\ last.info = last.answer
                   /\ last.stored = [info |-> last.answer, time |-> last.at]

C39_Witness ==
    /\ last.executed = "lookup"
    /\ last.prior # NoData /\ last.at - last.prior.time >= TokenInfoTtl
    /\ last.answer = NoData /\ last.info = ZeroInfo

\* C40: a position whose unrealized loss reaches the configured stop-loss
\* percentage is closed by the periodic exit evaluation: evaluating it gives
\* an exit reason.
C40_StopLossCloses ==
    (/\ exit_log.kind = "evaluated"
     /\ exit_log.entry > 0
     /\ (exit_log.value - exit_log.entry) * 100
           <= pm_settings.stop_loss_pct * exit_log.entry)
    => exit_log.reason # "none"
====
